---- MODULE Spec2Model ----
(***************************************************************************)
(* Secret expiration controller (internal/controller/secret_controller.go) *)
(* An informer mirrors Secrets into a local store and calls handleAdd /    *)
(* handleUpdate / handleDelete; the handlers enqueue keys on a rate        *)
(* limited work queue; workers dequeue a key, read the store, classify the *)
(* Secret by its expiration annotations and record an Event.               *)
(*                                                                         *)
(* Strings are sequences of one-character strings.  Instants are whole     *)
(* hours since the Unix epoch (UTC); durations are whole seconds.          *)
(***************************************************************************)
EXTENDS Integers, Sequences, FiniteSets, TLC

\* ------------------------------------------------------------------------
\* Bounds of the model
\* ------------------------------------------------------------------------
MaxRV == 2          \* resource versions the upstream store hands out
MaxNotifs == 1      \* notifications waiting for the handler goroutine
MaxTicks == 1       \* clock advances
MaxFailures == 1    \* consecutive cache fetch errors per key, and the failures the
                    \* rate limiter tells apart
HoursAround == 50   \* evaluation instants on either side of an expiration
MaxAdds == 2        \* Add calls counted per key and flight

\* ------------------------------------------------------------------------
\* Strings
\* ------------------------------------------------------------------------
Digits == {"0", "1", "2", "3", "4", "5", "6", "7", "8", "9"}

DigitVal(c) ==
    CASE c = "0" -> 0 [] c = "1" -> 1 [] c = "2" -> 2 [] c = "3" -> 3
      [] c = "4" -> 4 [] c = "5" -> 5 [] c = "6" -> 6 [] c = "7" -> 7
      [] c = "8" -> 8 [] c = "9" -> 9

AllDigits(s) == \A i \in 1..Len(s) : s[i] \in Digits

RECURSIVE DecVal(_)
\* value of a string of decimal digits
DecVal(s) ==
    IF Len(s) = 0 THEN 0
    ELSE 10 * DecVal(SubSeq(s, 1, Len(s) - 1)) + DigitVal(s[Len(s)])

\* integer division rounding toward zero: Go's int(x) of a float quotient
TruncDiv(a, b) == IF a >= 0 THEN a \div b ELSE -((-a) \div b)

\* the absent annotation (a key missing from the annotation map)
NoAnn == <<"\\0">>

\* ------------------------------------------------------------------------
\* time.Parse("2006-01-02", s): year-month-day, UTC midnight
\* ------------------------------------------------------------------------
IsLeap(y) == (y % 4 = 0) /\ ((y % 100 # 0) \/ (y % 400 = 0))

DaysIn(m, y) ==
    IF m = 2 THEN (IF IsLeap(y) THEN 29 ELSE 28)
    ELSE IF m \in {4, 6, 9, 11} THEN 30 ELSE 31

\* days from 1970-01-01 to the civil date y-m-d (proleptic Gregorian)
DaysFromCivil(y, m, d) ==
    LET yy  == IF m <= 2 THEN y - 1 ELSE y
        era == yy \div 400
        yoe == yy - era * 400
        mp  == IF m > 2 THEN m - 3 ELSE m + 9
        doy == (153 * mp + 2) \div 5 + d - 1
        doe == yoe * 365 + yoe \div 4 - yoe \div 100 + doy
    IN  era * 146097 + doe - 719468

\* [ok, t]: t is the parsed instant in hours since the epoch
ParseDate(s) ==
    IF /\ Len(s) = 10
       /\ AllDigits(SubSeq(s, 1, 4))
       /\ s[5] = "-"
       /\ AllDigits(SubSeq(s, 6, 7))
       /\ s[8] = "-"
       /\ AllDigits(SubSeq(s, 9, 10))
    THEN LET y == DecVal(SubSeq(s, 1, 4))
             m == DecVal(SubSeq(s, 6, 7))
             d == DecVal(SubSeq(s, 9, 10))
         IN  IF m \in 1..12 /\ d >= 1 /\ d <= DaysIn(m, y)
             THEN [ok |-> TRUE, t |-> 24 * DaysFromCivil(y, m, d)]
             ELSE [ok |-> FALSE, t |-> 0]
    ELSE [ok |-> FALSE, t |-> 0]

\* ------------------------------------------------------------------------
\* strconv.Atoi and time.ParseDuration (units h, m, s; no fractions)
\* ------------------------------------------------------------------------
Atoi(s) ==
    LET signed == Len(s) > 0 /\ s[1] \in {"+", "-"}
        body   == IF signed THEN SubSeq(s, 2, Len(s)) ELSE s
    IN  IF Len(body) > 0 /\ AllDigits(body)
        THEN [ok |-> TRUE,
              v  |-> IF signed /\ s[1] = "-" THEN -DecVal(body) ELSE DecVal(body)]
        ELSE [ok |-> FALSE, v |-> 0]

\* length of the longest prefix of s made of digits
RECURSIVE DigitPrefix(_)
DigitPrefix(s) ==
    IF Len(s) > 0 /\ s[1] \in Digits THEN 1 + DigitPrefix(Tail(s)) ELSE 0

\* length of the longest prefix of s made of unit characters (not a digit, not ".")
RECURSIVE UnitPrefix(_)
UnitPrefix(s) ==
    IF Len(s) > 0 /\ s[1] \notin Digits /\ s[1] # "." THEN 1 + UnitPrefix(Tail(s)) ELSE 0

\* seconds per unit; 0 for a unit the map does not hold
UnitSeconds(u) ==
    IF u = <<"h">> THEN 3600
    ELSE IF u = <<"m">> THEN 60
    ELSE IF u = <<"s">> THEN 1
    ELSE 0

\* the ([0-9]+[a-z]+)+ loop of time.ParseDuration over an unsigned string
RECURSIVE DurationTerms(_)
DurationTerms(s) ==
    IF Len(s) = 0 THEN [ok |-> TRUE, v |-> 0]
    ELSE LET nd   == DigitPrefix(s)
             rest == SubSeq(s, nd + 1, Len(s))
             nu   == UnitPrefix(rest)
             unit == SubSeq(rest, 1, nu)
             tl   == DurationTerms(SubSeq(rest, nu + 1, Len(rest)))
         IN  IF nd = 0 \/ nu = 0 \/ UnitSeconds(unit) = 0 \/ ~tl.ok
             THEN [ok |-> FALSE, v |-> 0]
             ELSE [ok |-> TRUE, v |-> DecVal(SubSeq(s, 1, nd)) * UnitSeconds(unit) + tl.v]

StdParseDuration(s) ==
    LET signed == Len(s) > 0 /\ s[1] \in {"+", "-"}
        body   == IF signed THEN SubSeq(s, 2, Len(s)) ELSE s
        terms  == DurationTerms(body)
    IN  IF body = <<"0">> THEN [ok |-> TRUE, v |-> 0]
        ELSE IF Len(body) = 0 \/ ~terms.ok THEN [ok |-> FALSE, v |-> 0]
        ELSE [ok |-> TRUE, v |-> IF signed /\ s[1] = "-" THEN -terms.v ELSE terms.v]

\* time.Duration is an int64 count of nanoseconds. 2^63 ns is 106751 days
\* 23h47m16.854775808s, so the largest whole number of days it holds is
MaxDurationDays == 106751

\* 2^64 ns is 213503 days 23h34m33.709551616s: 213504 days exceed it by
\* 1526.290448384 s
WrapDays == 213504
WrapRestSeconds == 1526

\* time.Duration(days) * 24 * time.Hour in whole seconds (toward zero). The
\* int64 product wraps modulo 2^64 ns without an error; day counts up to
\* 320255 in magnitude wrap at most once.
DaysDuration(days) ==
    IF -MaxDurationDays <= days /\ days <= MaxDurationDays
    THEN days * 24 * 3600
    ELSE IF days > 0
    THEN LET r == (days - WrapDays) * 24 * 3600
         IN  IF r >= 0 THEN r + WrapRestSeconds ELSE r + WrapRestSeconds + 1
    ELSE LET r == (days + WrapDays) * 24 * 3600
         IN  IF r <= 0 THEN r - WrapRestSeconds ELSE r - WrapRestSeconds - 1

\* parseDuration: "<int>d" is days, anything else goes to time.ParseDuration
parseDuration(s) ==
    IF Len(s) > 1 /\ s[Len(s)] = "d"
    THEN LET days == Atoi(SubSeq(s, 1, Len(s) - 1))
         IN  IF ~days.ok THEN [ok |-> FALSE, v |-> 0]
             ELSE [ok |-> TRUE, v |-> DaysDuration(days.v)]
    ELSE StdParseDuration(s)

\* ------------------------------------------------------------------------
\* The annotation values that occur, each parsed once
\* ------------------------------------------------------------------------
DateA == <<"2", "0", "2", "4", "-", "1", "2", "-", "3", "1">>
NotADate == <<"n", "o", "t", "-", "a", "-", "d", "a", "t", "e">>
ThreeDays == <<"3", "d">>
\* the first whole number of days above 2^64 ns
WrappingDays == <<"2", "1", "3", "5", "0", "4", "d">>

DateValues == {DateA, NotADate}

DurationValues ==
    {ThreeDays, <<"0", "d">>, <<"1", "d">>, <<"-", "1", "d">>,
     <<"3", "6", "h">>, <<"2", "4", "h", "3", "0", "m">>, <<"s", "o", "o", "n">>,
     <<"7">>, <<"1", ".", "5", "d">>, WrappingDays}

\* time.Parse("2006-01-02", s) and parseDuration(s) on those values
ParsedDate == [s \in DateValues |-> ParseDate(s)]
ParsedDuration == [s \in DurationValues |-> parseDuration(s)]

\* ------------------------------------------------------------------------
\* parseSecretInfo and the choice made by emitExpirationEvent
\* ------------------------------------------------------------------------
DefaultWarnBefore == 7 * 24 * 3600

\* UTC offset, in hours, of the zone the process runs in (time.Local)
LocalOffset == 9

\* A time.Time is the reading of a wall clock and the UTC offset of the
\* clock's location, both in hours.
\* time.Now() at the instant t (hours since the epoch): a reading in time.Local
timeNow(t) == [wall |-> t + LocalOffset, off |-> LocalOffset]

\* time.Parse that reads the date in time.Local, as time.ParseInLocation does
timeParse_InLocal(s) ==
    [ok |-> ParsedDate[s].ok, wall |-> ParsedDate[s].t, off |-> LocalOffset]

\* time.Parse("2006-01-02", s): the layout names no zone, the reading is UTC
timeParse(s) == [ok |-> ParsedDate[s].ok, wall |-> ParsedDate[s].t, off |-> 0]

\* a.Sub(b) in hours: the distance between the two instants
Sub(a, b) == (a.wall - a.off) - (b.wall - b.off)

NoInfo == [has |-> FALSE, ExpiresAt |-> 0, WarnBefore |-> 0, DaysUntilExp |-> 0]

\* parseSecretInfo with the day count rounded down instead of toward zero
parseSecretInfo_Floor(ann, t) ==
    IF ann.exp = NoAnn THEN NoInfo
    ELSE LET e == ParsedDate[ann.exp]
         IN  IF ~e.ok THEN NoInfo
             ELSE LET w == IF ann.warn = NoAnn
                           THEN [ok |-> FALSE, v |-> 0]
                           ELSE ParsedDuration[ann.warn]
                  IN  [has          |-> TRUE,
                       ExpiresAt    |-> e.t,
                       WarnBefore   |-> IF w.ok THEN w.v ELSE DefaultWarnBefore,
                       DaysUntilExp |-> (e.t - t) \div 24]

\* parseSecretInfo that counts calendar days: the time of day of now is dropped
parseSecretInfo_CalendarDays(ann, t) ==
    IF ann.exp = NoAnn THEN NoInfo
    ELSE LET e == ParsedDate[ann.exp]
         IN  IF ~e.ok THEN NoInfo
             ELSE LET w == IF ann.warn = NoAnn
                           THEN [ok |-> FALSE, v |-> 0]
                           ELSE ParsedDuration[ann.warn]
                  IN  [has          |-> TRUE,
                       ExpiresAt    |-> e.t,
                       WarnBefore   |-> IF w.ok THEN w.v ELSE DefaultWarnBefore,
                       DaysUntilExp |-> TruncDiv(e.t - 24 * (t \div 24), 24)]

\* parseSecretInfo that takes the value parseDuration returns with its error
parseSecretInfo_ZeroOnBadWarn(ann, t) ==
    IF ann.exp = NoAnn THEN NoInfo
    ELSE LET e == ParsedDate[ann.exp]
         IN  IF ~e.ok THEN NoInfo
             ELSE LET w == IF ann.warn = NoAnn
                           THEN [ok |-> FALSE, v |-> DefaultWarnBefore]
                           ELSE ParsedDuration[ann.warn]
                  IN  [has          |-> TRUE,
                       ExpiresAt    |-> e.t,
                       WarnBefore   |-> IF w.ok \/ ann.warn = NoAnn THEN w.v ELSE 0,
                       DaysUntilExp |-> TruncDiv(e.t - t, 24)]

\* parseSecretInfo that tracks a Secret whose date does not parse
parseSecretInfo_BadDateTracked(ann, t) ==
    IF ann.exp = NoAnn THEN NoInfo
    ELSE LET e == ParsedDate[ann.exp]
             w == IF ann.warn = NoAnn
                  THEN [ok |-> FALSE, v |-> 0]
                  ELSE ParsedDuration[ann.warn]
         IN  [has          |-> TRUE,
              ExpiresAt    |-> IF e.ok THEN e.t ELSE 0,
              WarnBefore   |-> IF w.ok THEN w.v ELSE DefaultWarnBefore,
              DaysUntilExp |-> TruncDiv((IF e.ok THEN e.t ELSE 0) - t, 24)]

\* ann is the annotation map [exp, warn] of the Secret, t is the instant at
\* which the call reads time.Now()
parseSecretInfo(ann, t) ==
    IF ann.exp = NoAnn THEN NoInfo
    ELSE LET e == timeParse(ann.exp)
         IN  IF ~e.ok THEN NoInfo
             ELSE LET w == IF ann.warn = NoAnn
                           THEN [ok |-> FALSE, v |-> 0]
                           ELSE ParsedDuration[ann.warn]
                  IN  [has          |-> TRUE,
                       ExpiresAt    |-> e.wall - e.off,
                       WarnBefore   |-> IF w.ok THEN w.v ELSE DefaultWarnBefore,
                       DaysUntilExp |-> TruncDiv(Sub(e, timeNow(t)), 24)]

\* int(info.WarnBefore.Hours() / 24)
warnThresholdDays(info) == TruncDiv(info.WarnBefore, 24 * 3600)

\* emitExpirationEvent with < for <= at the warning threshold
emitExpirationEvent_StrictThreshold(info) ==
    IF info.DaysUntilExp < 0
    THEN [type |-> "Warning", reason |-> "SecretExpired", days |-> info.DaysUntilExp]
    ELSE IF info.DaysUntilExp < warnThresholdDays(info)
    THEN [type |-> "Warning", reason |-> "SecretExpiringSoon", days |-> info.DaysUntilExp]
    ELSE [type |-> "Normal", reason |-> "SecretValid", days |-> info.DaysUntilExp]

\* the Event emitExpirationEvent records for info
emitExpirationEvent(info) ==
    IF info.DaysUntilExp < 0
    THEN [type |-> "Warning", reason |-> "SecretExpired", days |-> info.DaysUntilExp]
    ELSE IF info.DaysUntilExp <= warnThresholdDays(info)
    THEN [type |-> "Warning", reason |-> "SecretExpiringSoon", days |-> info.DaysUntilExp]
    ELSE [type |-> "Normal", reason |-> "SecretValid", days |-> info.DaysUntilExp]

\* time.Parse rejects the expires-at value that is present
MalformedDate(ann) == ann.exp # NoAnn /\ ~ParsedDate[ann.exp].ok

\* parseDuration rejects the warn-before value, which parseSecretInfo reads
\* only after the date has parsed
MalformedWarn(ann) ==
    /\ ann.exp # NoAnn
    /\ ParsedDate[ann.exp].ok
    /\ ann.warn # NoAnn
    /\ ~ParsedDuration[ann.warn].ok

\* the malformed values one call of parseSecretInfo meets
DataErrors(ann) == IF MalformedDate(ann) \/ MalformedWarn(ann) THEN 1 ELSE 0

\* the log lines one call of parseSecretInfo writes: both error branches
\* return or fall through without logging
parseSecretInfoLogs(ann) == 0

\* ------------------------------------------------------------------------
\* Objects, keys, workers
\* ------------------------------------------------------------------------
Keys == {"default/a", "default/b"}

\* the Secret that upstream creates, changes and deletes while the controller runs
UpstreamKeys == {"default/a"}

\* the key whose cache read may fail on every pass, any number of times in a
\* row; the reads of the other keys fail at most MaxFailures times in a row
AlwaysFailing == {"default/b"}

\* main starts the controller with numWorkers := 2
Workers == {"w1", "w2"}

\* the loop index at which Run starts each worker goroutine
WorkerNo(w) == IF w = "w1" THEN 0 ELSE 1

AnnUntracked == [exp |-> NoAnn, warn |-> NoAnn]
AnnMalformed == [exp |-> NotADate, warn |-> NoAnn]
AnnTracked == [exp |-> DateA, warn |-> NoAnn]
AnnTracked3d == [exp |-> DateA, warn |-> ThreeDays]

\* annotation maps the upstream store gives its Secrets
Anns == {AnnUntracked, AnnMalformed, AnnTracked}

\* the dynamic type of a value a handler is called with or the store returns
Kinds == {"Secret", "ConfigMap", "string"}

NoObj == [kind |-> "none", rv |-> 0, ann |-> AnnUntracked]
NoKey == "none"
NoWorker == "none"
NoEvent == [type |-> "none", reason |-> "none", days |-> 0]
NoAdds ==
    [pend |-> 0, live |-> 0, down |-> 0, forgets |-> 0, retries |-> 0, dones |-> 0,
     ever |-> 0]
NoNotif == [type |-> "none", key |-> NoKey, old |-> NoObj, new |-> NoObj, tombstone |-> FALSE]

\* 2024-12-20 00:00 UTC, the instant the clock starts at; it advances a week at a time
StartInstant == 24 * DaysFromCivil(2024, 12, 20)
TickHours == 7 * 24

VARIABLES
    now,        \* time.Now(), hours since the epoch
    ticks,      \* clock advances so far
    nextRV,     \* the resource version the upstream store hands out next
    store,      \* informer.GetStore(): key -> Secret or NoObj
    notifs,     \* notifications the informer has queued for the handlers
    wq,         \* the rate limited work queue
    stopped,    \* stopCh is closed
    wpc,        \* worker -> position in processNextWorkItem
    wkey,       \* worker -> key it holds
    wobj,       \* worker -> Secret it fetched
    werr,       \* worker -> reconcile returned an error
    emitted,    \* key -> [n, last]: Events recorded on the Secret
    proc,       \* the process: "running", "exited" (main returned) or "panicked"
    runpc,      \* Run's position: "waitSync", "serving", "returned" or "failed"
    synced,     \* informer.HasSynced()
    hist,       \* key -> Add calls counted: pend while the key was queued (since it
                \* entered the queue), live / down while it was in flight (since Get)
                \* with the queue open / shut down; and the Forget, AddRateLimited
                \* and Done calls made for it since its last Get
    lastOp,     \* the operation of the last step
    numWorkers  \* the argument of Run: the number of worker goroutines it starts

vars == <<now, ticks, nextRV, store, notifs, wq, stopped, wpc, wkey, wobj, werr,
          emitted, proc, runpc, synced, hist, lastOp, numWorkers>>

\* no goroutine takes a step once main has returned or a panic has ended the process
Running == proc = "running"

\* what the last step was called with and what it did to the queue:
\*   adds        Add calls it made
\*   same        old and new carry the same version marker
\*   oldTracked, newTracked, tombstone   the handler's payload
\*   pending     its key was queued when it ran
\*   wqSame      it left the whole queue as it was
\*   setsSame    it left queue, dirty and processing as they were
\*   badDate     the Secret it added or classified has a malformed expires-at
\*   dataErrs    malformed annotation values its parseSecretInfo calls met
\*   diags       diagnostics it wrote about them
\*   emits       Events it recorded
\*   delivered   the Event it recorded is written to the API server
\*   hasExp      the Secret it was called with carries the expires-at annotation
\*   badKind     it was called with a value that is not a Secret
\*   rv          the version marker of the Secret it classified
NoNote ==
    [adds |-> 0, same |-> FALSE, oldTracked |-> FALSE, newTracked |-> FALSE,
     tombstone |-> FALSE, pending |-> FALSE, wqSame |-> TRUE, setsSame |-> TRUE,
     badDate |-> FALSE, dataErrs |-> 0, diags |-> 0, emits |-> 0, delivered |-> FALSE,
     hasExp |-> FALSE, badKind |-> FALSE, rv |-> 0]

Op(name, k, note) == [op |-> name, key |-> k, note |-> note]

\* ------------------------------------------------------------------------
\* The work queue: workqueue.NewTypedRateLimitingQueue(DefaultTypedControllerRateLimiter)
\* queue is the FIFO of keys to hand out, dirty the keys that need processing,
\* processing the keys handed out and not yet done, failures the rate
\* limiter's per-key count, waiting the keys of the delaying queue.
\* ------------------------------------------------------------------------
EmptyQueue ==
    [queue |-> <<>>, dirty |-> {}, processing |-> {}, shuttingDown |-> FALSE,
     failures |-> [k \in Keys |-> 0], waiting |-> {}]

\* Add that pushes a key again while it is being processed
QAdd_IgnoresProcessing(q, k) ==
    IF q.shuttingDown THEN q
    ELSE IF k \in q.dirty THEN q
    ELSE [q EXCEPT !.dirty = @ \cup {k}, !.queue = Append(@, k)]

\* Add that pushes a key that is already queued
QAdd_NoDedup(q, k) ==
    IF q.shuttingDown THEN q
    ELSE IF k \in q.processing THEN [q EXCEPT !.dirty = @ \cup {k}]
    ELSE [q EXCEPT !.dirty = @ \cup {k}, !.queue = Append(@, k)]

QAdd(q, k) ==
    IF q.shuttingDown THEN q
    ELSE IF k \in q.dirty THEN q
    ELSE IF k \in q.processing THEN [q EXCEPT !.dirty = @ \cup {k}]
    ELSE [q EXCEPT !.dirty = @ \cup {k}, !.queue = Append(@, k)]

\* Get returns Head(q.queue) and leaves the queue in this state
QGet(q) ==
    LET k == Head(q.queue)
    IN  [q EXCEPT !.queue = Tail(@), !.processing = @ \cup {k}, !.dirty = @ \ {k}]

\* Done that forgets the Add calls made while the key was processed
QDone_DropsDirty(q, k) == [q EXCEPT !.processing = @ \ {k}, !.dirty = @ \ {k}]

QDone(q, k) ==
    IF k \in q.dirty
    THEN [q EXCEPT !.processing = @ \ {k}, !.queue = Append(@, k)]
    ELSE [q EXCEPT !.processing = @ \ {k}]

\* When(k) counts the failure (the count only sets the delay, which grows no
\* further past its cap: MaxFailures stands for "MaxFailures or more");
\* AddAfter hands the key to the delaying queue
QAddRateLimited(q, k) ==
    LET f == IF q.failures[k] < MaxFailures THEN q.failures[k] + 1 ELSE MaxFailures
    IN  IF q.shuttingDown THEN [q EXCEPT !.failures[k] = f]
        ELSE [q EXCEPT !.failures[k] = f, !.waiting = @ \cup {k}]

QForget(q, k) == [q EXCEPT !.failures[k] = 0]

QShutDown(q) == [q EXCEPT !.shuttingDown = TRUE]

\* ------------------------------------------------------------------------
\* The informer: upstream changes reach the store and are queued for the
\* handlers.  Closing stopCh does not stop it at once: its goroutines select
\* between stopCh and their input, so changes may still be applied after Stop.
\* ------------------------------------------------------------------------
Notify(n) == notifs' = Append(notifs, n)

UpstreamUpsert(k, ann) ==
    /\ Running
    /\ nextRV <= MaxRV
    /\ Len(notifs) < MaxNotifs
    /\ LET new == [kind |-> "Secret", rv |-> nextRV, ann |-> ann]
       IN  /\ store' = [store EXCEPT ![k] = new]
           /\ IF store[k] = NoObj
              THEN Notify([type |-> "add", key |-> k, old |-> NoObj, new |-> new,
                           tombstone |-> FALSE])
              ELSE Notify([type |-> "update", key |-> k, old |-> store[k], new |-> new,
                           tombstone |-> FALSE])
    /\ nextRV' = nextRV + 1
    /\ lastOp' = Op("upsert", k, NoNote)
    /\ UNCHANGED <<now, ticks, wq, stopped, wpc, wkey, wobj, werr, emitted, hist, proc, runpc, synced,
                   numWorkers>>

UpstreamDelete(k, tomb) ==
    /\ Running
    /\ nextRV <= MaxRV
    /\ Len(notifs) < MaxNotifs
    /\ store[k] # NoObj
    /\ store' = [store EXCEPT ![k] = NoObj]
    /\ Notify([type |-> "delete", key |-> k, old |-> store[k], new |-> NoObj,
               tombstone |-> tomb])
    /\ nextRV' = nextRV + 1
    /\ lastOp' = Op("delete", k, NoNote)
    /\ UNCHANGED <<now, ticks, wq, stopped, wpc, wkey, wobj, werr, emitted, hist, proc, runpc, synced,
                   numWorkers>>

\* the 30 s resync re-delivers a stored Secret as an update of itself
Resync(k) ==
    /\ Running
    /\ Len(notifs) < MaxNotifs
    /\ store[k] # NoObj
    /\ Notify([type |-> "update", key |-> k, old |-> store[k], new |-> store[k],
               tombstone |-> FALSE])
    /\ lastOp' = Op("resync", k, NoNote)
    /\ UNCHANGED <<now, ticks, nextRV, store, wq, stopped, wpc, wkey, wobj, werr, emitted, hist, proc, runpc, synced,
                   numWorkers>>

\* ------------------------------------------------------------------------
\* The handlers.  Each is given as the sequence of keys it calls
\* c.workqueue.Add with; n is the notification, t the instant.
\* ------------------------------------------------------------------------
Tracked(obj, t) == parseSecretInfo(obj.ann, t).has

\* the type assertion obj.(*corev1.Secret) succeeds
IsSecret(obj) == obj.kind = "Secret"

\* cache.MetaNamespaceKeyFunc(obj) returns a key: obj carries object metadata
HasMeta(obj) == obj.kind \in {"Secret", "ConfigMap"}

\* handleAdd that enqueues every Secret that carries the expires-at annotation
handleAddCalls_PresenceOnly(n, t) ==
    IF ~HasMeta(n.new) THEN <<>>
    ELSE IF ~IsSecret(n.new) THEN <<>>
    ELSE IF n.new.ann.exp = NoAnn THEN <<>> ELSE <<n.key>>

handleAddCalls(n, t) ==
    IF ~HasMeta(n.new) THEN <<>>
    ELSE IF ~IsSecret(n.new) THEN <<>>
    ELSE IF ~Tracked(n.new, t) THEN <<>> ELSE <<n.key>>

\* handleUpdate without the resync filter
handleUpdateCalls_NoResyncFilter(n, t) ==
    IF ~IsSecret(n.old) THEN <<>>
    ELSE IF ~IsSecret(n.new) THEN <<>>
    ELSE IF Tracked(n.old, t) \/ Tracked(n.new, t) THEN <<n.key>> ELSE <<>>

\* handleUpdate that asserts the type of the new object only
handleUpdateCalls_OldUnchecked(n, t) ==
    IF ~IsSecret(n.new) THEN <<>>
    ELSE IF n.old.rv = n.new.rv THEN <<>>
    ELSE IF Tracked(n.old, t) \/ Tracked(n.new, t) THEN <<n.key>>
    ELSE <<>>

\* handleUpdate that looks at the new Secret only
handleUpdateCalls_OnlyNew(n, t) ==
    IF ~IsSecret(n.old) THEN <<>>
    ELSE IF ~IsSecret(n.new) THEN <<>>
    ELSE IF n.old.rv = n.new.rv THEN <<>>
    ELSE IF Tracked(n.new, t) THEN <<n.key>>
    ELSE <<>>

handleUpdateCalls(n, t) ==
    IF ~IsSecret(n.old) THEN <<>>
    ELSE IF ~IsSecret(n.new) THEN <<>>
    ELSE IF n.old.rv = n.new.rv THEN <<>>
    ELSE IF Tracked(n.old, t) \/ Tracked(n.new, t) THEN <<n.key>>
    ELSE <<>>

\* handleDelete that enqueues the key of a tracked Secret
handleDeleteCalls_Enqueues(n, t) ==
    IF IsSecret(n.old) /\ Tracked(n.old, t) THEN <<n.key>> ELSE <<>>

\* n.old is the deleted object, bare or unwrapped from the tombstone; no
\* branch, whatever the type assertions give, calls Add
handleDeleteCalls(n, t) == <<>>

InQueue(q, k) == \E i \in 1..Len(q.queue) : q.queue[i] = k

RECURSIVE ApplyAdds(_, _)
ApplyAdds(q, ks) == IF ks = <<>> THEN q ELSE ApplyAdds(QAdd(q, Head(ks)), Tail(ks))

SameSets(q1, q2) ==
    q1.queue = q2.queue /\ q1.dirty = q2.dirty /\ q1.processing = q2.processing

\* the note of a step that calls Add with the keys ks on the queue q, leaving q1
AddNote(k, ks, q, q1) ==
    [NoNote EXCEPT !.adds = Len(ks), !.pending = InQueue(q, k),
                   !.wqSame = (q1 = q), !.setsSame = SameSets(q1, q)]

\* the Secrets each handler passes to parseSecretInfo
handleAddParsed(n) == IF HasMeta(n.new) /\ IsSecret(n.new) THEN <<n.new>> ELSE <<>>
handleUpdateParsed(n) ==
    IF ~IsSecret(n.old) \/ ~IsSecret(n.new) THEN <<>>
    ELSE IF n.old.rv = n.new.rv THEN <<>> ELSE <<n.old, n.new>>
handleDeleteParsed(n) == IF IsSecret(n.old) THEN <<n.old>> ELSE <<>>

\* the handler of n is called with a value that is not a Secret (for a
\* delete: neither a Secret nor a tombstone that wraps one)
BadPayload(n) ==
    IF n.type = "add" THEN ~IsSecret(n.new)
    ELSE IF n.type = "update" THEN ~IsSecret(n.old) \/ ~IsSecret(n.new)
    ELSE ~IsSecret(n.old)

RECURSIVE SumDataErrors(_)
SumDataErrors(objs) ==
    IF objs = <<>> THEN 0 ELSE DataErrors(Head(objs).ann) + SumDataErrors(Tail(objs))

RECURSIVE SumLogs(_)
SumLogs(objs) ==
    IF objs = <<>> THEN 0 ELSE parseSecretInfoLogs(Head(objs).ann) + SumLogs(Tail(objs))

NoteOf(n, t, ks, q, parsed) ==
    [AddNote(n.key, ks, q, ApplyAdds(q, ks)) EXCEPT
        !.same = (n.old.rv = n.new.rv),
        !.oldTracked = (IsSecret(n.old) /\ Tracked(n.old, t)),
        !.newTracked = (IsSecret(n.new) /\ Tracked(n.new, t)),
        !.tombstone = n.tombstone,
        !.badDate = (IsSecret(n.new) /\ MalformedDate(n.new.ann)),
        !.hasExp = (IsSecret(n.new) /\ n.new.ann.exp # NoAnn),
        !.badKind = BadPayload(n),
        !.dataErrs = SumDataErrors(parsed),
        !.diags = SumLogs(parsed)]

Bump(c) == IF c < MaxAdds THEN c + 1 ELSE c

RECURSIVE CountAdds(_, _, _)
\* the Add calls ks recorded against the queue q they were made on
CountAdds(h, q, ks) ==
    IF ks = <<>> THEN h
    ELSE LET k == Head(ks)
             h0 == [h EXCEPT ![k].ever = 1]
             h1 == IF InQueue(q, k)
                   THEN [h0 EXCEPT ![k].pend = Bump(@)]
                   ELSE IF k \in q.processing /\ ~q.shuttingDown
                   THEN [h0 EXCEPT ![k].live = Bump(@)]
                   ELSE IF k \in q.processing
                   THEN [h0 EXCEPT ![k].down = Bump(@)]
                   ELSE [h0 EXCEPT ![k].pend = 0]
         IN  CountAdds(h1, QAdd(q, k), Tail(ks))

\* the handler goroutine takes the next notification of the given type and
\* runs the handler, which calls Add with the keys ks
Handle(type, name, ks, parsed) ==
    /\ Running
    /\ notifs # <<>>
    /\ Head(notifs).type = type
    /\ notifs' = Tail(notifs)
    /\ wq' = ApplyAdds(wq, ks)
    /\ hist' = CountAdds(hist, wq, ks)
    /\ lastOp' = Op(name, Head(notifs).key, NoteOf(Head(notifs), now, ks, wq, parsed))
    /\ UNCHANGED <<now, ticks, nextRV, store, stopped, wpc, wkey, wobj, werr, emitted, proc, runpc, synced,
                   numWorkers>>

handleAdd ==
    Handle("add", "handleAdd", handleAddCalls(Head(notifs), now),
           handleAddParsed(Head(notifs)))
handleUpdate ==
    Handle("update", "handleUpdate", handleUpdateCalls(Head(notifs), now),
           handleUpdateParsed(Head(notifs)))
handleDelete ==
    Handle("delete", "handleDelete", handleDeleteCalls(Head(notifs), now),
           handleDeleteParsed(Head(notifs)))

\* ------------------------------------------------------------------------
\* The workers: processNextWorkItem, one queue call or one cache read per step
\* ------------------------------------------------------------------------
\* wait.Until looks at stopCh before it calls runWorker
WorkerBegin(w) ==
    /\ Running
    /\ wpc[w] = "start"
    /\ ~stopped
    /\ wpc' = [wpc EXCEPT ![w] = "get"]
    /\ lastOp' = Op("begin", NoKey, NoNote)
    /\ UNCHANGED <<now, ticks, nextRV, store, notifs, wq, stopped, wkey, wobj, werr, emitted,
                   proc, runpc, synced, hist,
                   numWorkers>>

\* stopCh was closed before the first call of runWorker: the worker never runs
WorkerSkip(w) ==
    /\ Running
    /\ wpc[w] = "start"
    /\ stopped
    /\ wpc' = [wpc EXCEPT ![w] = "exit"]
    /\ lastOp' = Op("skip", NoKey, NoNote)
    /\ UNCHANGED <<now, ticks, nextRV, store, notifs, wq, stopped, wkey, wobj, werr, emitted,
                   proc, runpc, synced, hist,
                   numWorkers>>

WorkerGet(w) ==
    /\ Running
    /\ wpc[w] = "get"
    /\ wq.queue # <<>>
    /\ wq' = QGet(wq)
    /\ wkey' = [wkey EXCEPT ![w] = Head(wq.queue)]
    /\ wpc' = [wpc EXCEPT ![w] = "fetch"]
    /\ hist' = [hist EXCEPT ![Head(wq.queue)].live = 0, ![Head(wq.queue)].down = 0,
                            ![Head(wq.queue)].forgets = 0, ![Head(wq.queue)].retries = 0,
                            ![Head(wq.queue)].dones = 0]
    /\ lastOp' = Op("get", Head(wq.queue), NoNote)
    /\ UNCHANGED <<now, ticks, nextRV, store, notifs, stopped, wobj, werr, emitted, proc, runpc, synced,
                   numWorkers>>

\* Get reports shutdown: runWorker returns and, stopCh being closed, is not restarted
WorkerExit(w) ==
    /\ Running
    /\ wpc[w] = "get"
    /\ wq.queue = <<>>
    /\ wq.shuttingDown
    /\ wpc' = [wpc EXCEPT ![w] = "exit"]
    /\ lastOp' = Op("exit", NoKey, NoNote)
    /\ UNCHANGED <<now, ticks, nextRV, store, notifs, wq, stopped, wkey, wobj, werr, emitted, hist, proc, runpc, synced,
                   numWorkers>>

\* reconcile that returns an error when the key is absent from the store
WorkerFetch_AbsentIsError(w, err) ==
    /\ Running
    /\ wpc[w] = "fetch"
    /\ err => (wq.failures[wkey[w]] < MaxFailures \/ wkey[w] \in AlwaysFailing)
    /\ werr' = [werr EXCEPT ![w] = err \/ store[wkey[w]] = NoObj]
    /\ wobj' = [wobj EXCEPT ![w] = IF err THEN NoObj ELSE store[wkey[w]]]
    /\ wpc' = [wpc EXCEPT ![w] =
                 IF err \/ store[wkey[w]] = NoObj THEN "ack" ELSE "classify"]
    /\ lastOp' = Op(IF err THEN "fetchError" ELSE "fetch", wkey[w], NoNote)
    /\ UNCHANGED <<now, ticks, nextRV, store, notifs, wq, stopped, wkey, emitted, hist, proc, runpc, synced,
                   numWorkers>>

\* reconcile that works on the Secret the handler saw when it enqueued the
\* key: the old object of the notification that is still to be handled
WorkerFetch_FromPayload(w, err) ==
    LET stale == notifs # <<>> /\ Head(notifs).key = wkey[w] /\ Head(notifs).old # NoObj
        obj   == IF stale THEN Head(notifs).old ELSE store[wkey[w]]
    IN  /\ Running
        /\ wpc[w] = "fetch"
        /\ err => (wq.failures[wkey[w]] < MaxFailures \/ wkey[w] \in AlwaysFailing)
        /\ werr' = [werr EXCEPT ![w] = err]
        /\ wobj' = [wobj EXCEPT ![w] = IF err THEN NoObj ELSE obj]
        /\ wpc' = [wpc EXCEPT ![w] = IF err \/ obj = NoObj THEN "ack" ELSE "classify"]
        /\ lastOp' = Op(IF err THEN "fetchError" ELSE "fetch", wkey[w], NoNote)
        /\ UNCHANGED <<now, ticks, nextRV, store, notifs, wq, stopped, wkey, emitted, hist, proc, runpc, synced,
                   numWorkers>>

\* reconcile that takes whatever the cache holds under the key for a Secret
WorkerFetch_NoTypeCheck(w, err) ==
    /\ Running
    /\ wpc[w] = "fetch"
    /\ err => (wq.failures[wkey[w]] < MaxFailures \/ wkey[w] \in AlwaysFailing)
    /\ werr' = [werr EXCEPT ![w] = err]
    /\ wobj' = [wobj EXCEPT ![w] = IF err THEN NoObj ELSE store[wkey[w]]]
    /\ wpc' = [wpc EXCEPT ![w] =
                 IF err \/ store[wkey[w]] = NoObj THEN "ack" ELSE "classify"]
    /\ lastOp' = Op(IF err THEN "fetchError" ELSE "fetch", wkey[w], NoNote)
    /\ UNCHANGED <<now, ticks, nextRV, store, notifs, wq, stopped, wkey, emitted, hist, proc, runpc, synced,
                   numWorkers>>

\* the entry the cache holds under k exists and is not a *corev1.Secret
WrongKind(k) == store[k] # NoObj /\ ~IsSecret(store[k])

\* reconcile up to the type assertion: the Secret, its absence, an error of
\* the cache, or the error for an entry that is not a Secret
WorkerFetch(w, err) ==
    /\ Running
    /\ wpc[w] = "fetch"
    /\ err => (wq.failures[wkey[w]] < MaxFailures \/ wkey[w] \in AlwaysFailing)
    /\ werr' = [werr EXCEPT ![w] = err \/ WrongKind(wkey[w])]
    /\ wobj' = [wobj EXCEPT ![w] =
                  IF err \/ WrongKind(wkey[w]) THEN NoObj ELSE store[wkey[w]]]
    /\ wpc' = [wpc EXCEPT ![w] =
                 IF err \/ store[wkey[w]] = NoObj \/ WrongKind(wkey[w])
                 THEN "ack" ELSE "classify"]
    /\ lastOp' = Op(IF err THEN "fetchError" ELSE "fetch", wkey[w],
                     [NoNote EXCEPT !.badKind = ~err /\ WrongKind(wkey[w])])
    /\ UNCHANGED <<now, ticks, nextRV, store, notifs, wq, stopped, wkey, emitted, hist, proc, runpc, synced,
                   numWorkers>>

\* reconcile that is silent when the Status is the one it reported last
reconcileEmit_SuppressUnchanged(em, obj, t) ==
    LET info == parseSecretInfo(obj.ann, t)
    IN  IF ~info.has \/ emitExpirationEvent(info).reason = em.last.reason THEN em
        ELSE [n |-> em.n + 1, last |-> emitExpirationEvent(info)]

\* reconcile that does not return on hasExpiration = false
reconcileEmit_NoHasCheck(em, obj, t) ==
    [n |-> em.n + 1, last |-> emitExpirationEvent(parseSecretInfo(obj.ann, t))]

\* the Events on the Secret after reconcile has classified obj at instant t
reconcileEmit(em, obj, t) ==
    LET info == parseSecretInfo(obj.ann, t)
    IN  IF ~info.has THEN em
        ELSE [n |-> em.n + 1, last |-> emitExpirationEvent(info)]

\* recorder.Eventf hands the Event to the broadcaster and returns nothing: the
\* write to the API server happens later and may fail, and after
\* broadcaster.Shutdown() the Event is dropped.  The outcomes for obj at t:
SinkOutcomes(obj, t, down) ==
    IF ~Tracked(obj, t) \/ down THEN {FALSE} ELSE BOOLEAN

\* reconcile that creates the Event under a name fixed by the Secret and
\* returns the AlreadyExists error of the second creation
WorkerClassify_AlreadyExists(w) ==
    /\ Running
    /\ wpc[w] = "classify"
    /\ emitted' = [emitted EXCEPT ![wkey[w]] =
                      IF @.n >= 1 THEN @ ELSE reconcileEmit(@, wobj[w], now)]
    /\ werr' = [werr EXCEPT ![w] = Tracked(wobj[w], now) /\ emitted[wkey[w]].n >= 1]
    /\ wpc' = [wpc EXCEPT ![w] = "ack"]
    /\ wobj' = [wobj EXCEPT ![w] = NoObj]
    /\ lastOp' = Op("classify", wkey[w],
                     [NoNote EXCEPT !.newTracked = Tracked(wobj[w], now),
                                    !.emits = emitted'[wkey[w]].n - emitted[wkey[w]].n,
                                    !.rv = wobj[w].rv])
    /\ UNCHANGED <<now, ticks, nextRV, store, notifs, wq, stopped, wkey, hist, proc, runpc, synced,
                   numWorkers>>

\* reconcile that writes the lead time it applies back into the Secret it
\* got from the cache, which is the cache's own object
WorkerClassify_WritesMirror(w) ==
    /\ Running
    /\ wpc[w] = "classify"
    /\ emitted' = [emitted EXCEPT ![wkey[w]] = reconcileEmit(@, wobj[w], now)]
    /\ wpc' = [wpc EXCEPT ![w] = "ack"]
    /\ wobj' = [wobj EXCEPT ![w] = NoObj]
    /\ store' = [store EXCEPT ![wkey[w]] =
                    IF @ = wobj[w] /\ Tracked(wobj[w], now) /\ @.ann.warn = NoAnn
                    THEN [@ EXCEPT !.ann = [@ EXCEPT !.warn = ThreeDays]]
                    ELSE @]
    /\ \E d \in SinkOutcomes(wobj[w], now, stopped) :
           lastOp' = Op("classify", wkey[w],
                        [NoNote EXCEPT !.newTracked = Tracked(wobj[w], now),
                                       !.badDate = MalformedDate(wobj[w].ann),
                                       !.dataErrs = DataErrors(wobj[w].ann),
                                       !.diags = parseSecretInfoLogs(wobj[w].ann),
                                       !.emits = emitted'[wkey[w]].n - emitted[wkey[w]].n,
                                       !.delivered = d,
                                       !.rv = wobj[w].rv])
    /\ UNCHANGED <<now, ticks, nextRV, notifs, wq, stopped, wkey, werr, hist, proc, runpc, synced,
                   numWorkers>>

\* reconcile from parseSecretInfo on
WorkerClassify(w) ==
    /\ Running
    /\ wpc[w] = "classify"
    /\ emitted' = [emitted EXCEPT ![wkey[w]] = reconcileEmit(@, wobj[w], now)]
    /\ wpc' = [wpc EXCEPT ![w] = "ack"]
    /\ wobj' = [wobj EXCEPT ![w] = NoObj]
    /\ \E d \in SinkOutcomes(wobj[w], now, stopped) :
           lastOp' = Op("classify", wkey[w],
                        [NoNote EXCEPT !.newTracked = Tracked(wobj[w], now),
                                       !.badDate = MalformedDate(wobj[w].ann),
                                       !.dataErrs = DataErrors(wobj[w].ann),
                                       !.diags = parseSecretInfoLogs(wobj[w].ann),
                                       !.emits = emitted'[wkey[w]].n - emitted[wkey[w]].n,
                                       !.delivered = d,
                                       !.rv = wobj[w].rv])
    /\ UNCHANGED <<now, ticks, nextRV, store, notifs, wq, stopped, wkey, werr, hist, proc, runpc, synced,
                   numWorkers>>

\* the queue after processNextWorkItem has acted on reconcile's result
ackQueue(q, k, err) == IF err THEN QAddRateLimited(q, k) ELSE QForget(q, k)

\* the calls processNextWorkItem makes on reconcile's result, counted
ackCalls(h, k, err) ==
    IF err THEN [h EXCEPT ![k].retries = @ + 1] ELSE [h EXCEPT ![k].forgets = @ + 1]

\* processNextWorkItem that ends the process when reconcile returns an error
WorkerAck_FatalOnError(w) ==
    /\ Running
    /\ wpc[w] = "ack"
    /\ wq' = ackQueue(wq, wkey[w], werr[w])
    /\ wpc' = [wpc EXCEPT ![w] = "done"]
    /\ werr' = [werr EXCEPT ![w] = FALSE]
    /\ proc' = IF werr[w] THEN "panicked" ELSE proc
    /\ hist' = ackCalls(hist, wkey[w], werr[w])
    /\ lastOp' = Op(IF werr[w] THEN "addRateLimited" ELSE "forget", wkey[w], NoNote)
    /\ UNCHANGED <<now, ticks, nextRV, store, notifs, stopped, wkey, wobj, emitted,
                   runpc, synced,
                   numWorkers>>

\* processNextWorkItem without the return after AddRateLimited: it goes on to Forget
WorkerAck_FallsThrough(w) ==
    /\ Running
    /\ wpc[w] = "ack"
    /\ wq' = QForget(ackQueue(wq, wkey[w], werr[w]), wkey[w])
    /\ wpc' = [wpc EXCEPT ![w] = "done"]
    /\ werr' = [werr EXCEPT ![w] = FALSE]
    /\ hist' = [ackCalls(hist, wkey[w], werr[w]) EXCEPT
                   ![wkey[w]].forgets = IF werr[w] THEN @ + 1 ELSE @]
    /\ lastOp' = Op(IF werr[w] THEN "addRateLimited" ELSE "forget", wkey[w], NoNote)
    /\ UNCHANGED <<now, ticks, nextRV, store, notifs, stopped, wkey, wobj, emitted, proc, runpc, synced,
                   numWorkers>>

WorkerAck(w) ==
    /\ Running
    /\ wpc[w] = "ack"
    /\ wq' = ackQueue(wq, wkey[w], werr[w])
    /\ wpc' = [wpc EXCEPT ![w] = "done"]
    /\ werr' = [werr EXCEPT ![w] = FALSE]
    /\ hist' = ackCalls(hist, wkey[w], werr[w])
    /\ lastOp' = Op(IF werr[w] THEN "addRateLimited" ELSE "forget", wkey[w], NoNote)
    /\ UNCHANGED <<now, ticks, nextRV, store, notifs, stopped, wkey, wobj, emitted, proc, runpc, synced,
                   numWorkers>>

\* the deferred Done(key)
WorkerDone(w) ==
    /\ Running
    /\ wpc[w] = "done"
    /\ wq' = QDone(wq, wkey[w])
    /\ wpc' = [wpc EXCEPT ![w] = "get"]
    /\ wkey' = [wkey EXCEPT ![w] = NoKey]
    /\ hist' = [hist EXCEPT ![wkey[w]].pend = 0, ![wkey[w]].dones = @ + 1]
    /\ lastOp' = Op("done", wkey[w], NoNote)
    /\ UNCHANGED <<now, ticks, nextRV, store, notifs, stopped, wobj, werr, emitted, proc, runpc, synced,
                   numWorkers>>

\* the delaying queue's timer for k fires (its loop ends with ShutDown)
DelayFire(k) ==
    /\ Running
    /\ k \in wq.waiting
    /\ ~wq.shuttingDown
    /\ wq' = QAdd([wq EXCEPT !.waiting = @ \ {k}], k)
    /\ hist' = CountAdds(hist, wq, <<k>>)
    /\ lastOp' = Op("delayFire", k,
                     AddNote(k, <<k>>, wq, QAdd([wq EXCEPT !.waiting = @ \ {k}], k)))
    /\ UNCHANGED <<now, ticks, nextRV, store, notifs, stopped, wpc, wkey, wobj, werr, emitted, proc, runpc, synced,
                   numWorkers>>

\* ------------------------------------------------------------------------
\* The clock and the supervisor
\* ------------------------------------------------------------------------
Tick ==
    /\ Running
    /\ ticks < MaxTicks
    /\ now' = now + TickHours
    /\ ticks' = ticks + 1
    /\ lastOp' = Op("tick", NoKey, NoNote)
    /\ UNCHANGED <<nextRV, store, notifs, wq, stopped, wpc, wkey, wobj, werr, emitted, hist, proc, runpc, synced,
                   numWorkers>>

\* Stop, called for the first time: broadcaster.Shutdown() and close(stopCh)
Stop ==
    /\ Running
    /\ ~stopped
    /\ stopped' = TRUE
    /\ lastOp' = Op("stop", NoKey, NoNote)
    /\ UNCHANGED <<now, ticks, nextRV, store, notifs, wq, wpc, wkey, wobj, werr, emitted,
                   proc, runpc, synced, hist,
                   numWorkers>>

\* Stop, called again by any goroutine that holds the controller: close of a
\* channel that is already closed panics, and the panic ends the process
StopAgain ==
    /\ Running
    /\ stopped
    /\ proc' = "panicked"
    /\ lastOp' = Op("stop", NoKey, NoNote)
    /\ UNCHANGED <<now, ticks, nextRV, store, notifs, wq, stopped, wpc, wkey, wobj, werr,
                   emitted, runpc, synced, hist,
                   numWorkers>>

\* the informer has applied its initial listing to the store
InformerSync ==
    /\ Running
    /\ ~synced
    /\ synced' = TRUE
    /\ lastOp' = Op("hasSynced", NoKey, NoNote)
    /\ UNCHANGED <<now, ticks, nextRV, store, notifs, wq, stopped, wpc, wkey, wobj, werr,
                   emitted, proc, runpc, hist,
                   numWorkers>>

\* the informer's list or watch call fails; the reflector backs off and calls
\* again, for as long as stopCh is open
ListRetry ==
    /\ Running
    /\ ~synced
    /\ ~stopped
    /\ lastOp' = Op("listRetry", NoKey, NoNote)
    /\ UNCHANGED <<now, ticks, nextRV, store, notifs, wq, stopped, wpc, wkey, wobj, werr,
                   emitted, proc, runpc, synced, hist,
                   numWorkers>>

\* WaitForCacheSync polls HasSynced, finds it false and keeps waiting: its only
\* other way out is stopCh
PollSync ==
    /\ Running
    /\ runpc = "waitSync"
    /\ ~synced
    /\ ~stopped
    /\ lastOp' = Op("pollSync", NoKey, NoNote)
    /\ UNCHANGED <<now, ticks, nextRV, store, notifs, wq, stopped, wpc, wkey, wobj, werr,
                   emitted, proc, runpc, synced, hist,
                   numWorkers>>

\* Run that starts the workers without waiting for the cache to sync
RunStartWorkers_NoWait ==
    /\ Running
    /\ runpc = "waitSync"
    /\ runpc' = "serving"
    /\ wpc' = [w \in Workers |-> IF WorkerNo(w) < numWorkers THEN "start" ELSE "idle"]
    /\ lastOp' = Op("startWorkers", NoKey, NoNote)
    /\ UNCHANGED <<now, ticks, nextRV, store, notifs, wq, stopped, wkey, wobj, werr,
                   emitted, proc, synced, hist,
                   numWorkers>>

\* Run whose loop starts a goroutine for every i <= workers
RunStartWorkers_OneMore ==
    /\ Running
    /\ runpc = "waitSync"
    /\ synced
    /\ runpc' = "serving"
    /\ wpc' = [w \in Workers |-> IF WorkerNo(w) <= numWorkers THEN "start" ELSE "idle"]
    /\ lastOp' = Op("startWorkers", NoKey, NoNote)
    /\ UNCHANGED <<now, ticks, nextRV, store, notifs, wq, stopped, wkey, wobj, werr,
                   emitted, proc, synced, hist, numWorkers>>

\* WaitForCacheSync returns true: Run starts the workers, one goroutine for
\* every i < workers, and waits on stopCh
RunStartWorkers ==
    /\ Running
    /\ runpc = "waitSync"
    /\ synced
    /\ runpc' = "serving"
    /\ wpc' = [w \in Workers |-> IF WorkerNo(w) < numWorkers THEN "start" ELSE "idle"]
    /\ lastOp' = Op("startWorkers", NoKey, NoNote)
    /\ UNCHANGED <<now, ticks, nextRV, store, notifs, wq, stopped, wkey, wobj, werr,
                   emitted, proc, synced, hist,
                   numWorkers>>

\* WaitForCacheSync returns false, which it does only when stopCh is closed:
\* Run returns the error and its deferred ShutDown runs
RunSyncAborted ==
    /\ Running
    /\ runpc = "waitSync"
    /\ stopped
    /\ runpc' = "failed"
    /\ wq' = QShutDown(wq)
    /\ lastOp' = Op("syncAborted", NoKey, NoNote)
    /\ UNCHANGED <<now, ticks, nextRV, store, notifs, stopped, wpc, wkey, wobj, werr,
                   emitted, proc, synced, hist,
                   numWorkers>>

\* Run returns once stopCh is closed; its deferred ShutDown runs
RunReturn ==
    /\ Running
    /\ runpc = "serving"
    /\ stopped
    /\ runpc' = "returned"
    /\ wq' = QShutDown(wq)
    /\ lastOp' = Op("shutDown", NoKey, NoNote)
    /\ UNCHANGED <<now, ticks, nextRV, store, notifs, stopped, wpc, wkey, wobj, werr,
                   emitted, proc, synced, hist,
                   numWorkers>>

\* main has called Stop: it leaves its select and returns, which ends the
\* process with whatever the other goroutines were doing
MainReturn ==
    /\ Running
    /\ stopped
    /\ proc' = "exited"
    /\ lastOp' = Op("mainReturn", NoKey, NoNote)
    /\ UNCHANGED <<now, ticks, nextRV, store, notifs, wq, stopped, wpc, wkey, wobj, werr,
                   emitted, runpc, synced, hist,
                   numWorkers>>

\* the state NewSecretController leaves: Run has not been called yet
InitConstructed ==
    /\ now = StartInstant
    /\ ticks = 0
    /\ numWorkers = Cardinality(Workers)
    /\ nextRV = 1
    /\ store = [k \in Keys |-> NoObj]
    /\ notifs = <<>>
    /\ wq = EmptyQueue
    /\ stopped = FALSE
    /\ wpc = [w \in Workers |-> "idle"]
    /\ wkey = [w \in Workers |-> NoKey]
    /\ wobj = [w \in Workers |-> NoObj]
    /\ werr = [w \in Workers |-> FALSE]
    /\ emitted = [k \in Keys |-> [n |-> 0, last |-> NoEvent]]
    /\ proc = "running"
    /\ runpc = "waitSync"
    /\ synced = FALSE
    /\ hist = [k \in Keys |-> NoAdds]
    /\ lastOp = Op("init", NoKey, NoNote)

\* the whole life of the process, from construction to its end
NextLifecycle ==
    \/ \E k \in UpstreamKeys, ann \in Anns : UpstreamUpsert(k, ann)
    \/ \E k \in UpstreamKeys, tomb \in BOOLEAN : UpstreamDelete(k, tomb)
    \/ handleAdd
    \/ handleUpdate
    \/ handleDelete
    \/ InformerSync
    \/ RunStartWorkers
    \/ RunSyncAborted
    \/ \E w \in Workers : WorkerBegin(w)
    \/ \E w \in Workers : WorkerSkip(w)
    \/ \E w \in Workers : WorkerGet(w)
    \/ \E w \in Workers : WorkerExit(w)
    \/ \E w \in Workers, err \in BOOLEAN : WorkerFetch(w, err)
    \/ \E w \in Workers : WorkerClassify(w)
    \/ \E w \in Workers : WorkerAck(w)
    \/ \E w \in Workers : WorkerDone(w)
    \/ \E k \in Keys : DelayFire(k)
    \/ Stop
    \/ StopAgain
    \/ RunReturn
    \/ MainReturn

SpecLifecycle == InitConstructed /\ [][NextLifecycle]_vars

\* ------------------------------------------------------------------------
\* Startup with no stop signal: Run is called, the informer lists (the Secrets
\* appear as adds) and may or may not get through, the workers start once it
\* has.  Every goroutine of the process keeps running; whether the listing
\* succeeds is up to the API server.
\* ------------------------------------------------------------------------
NextStartup ==
    \/ \E k \in UpstreamKeys, ann \in Anns : UpstreamUpsert(k, ann)
    \/ handleAdd
    \/ handleUpdate
    \/ ListRetry
    \/ PollSync
    \/ InformerSync
    \/ RunStartWorkers
    \/ \E w \in Workers : WorkerBegin(w)
    \/ \E w \in Workers : WorkerGet(w)
    \/ \E w \in Workers, err \in BOOLEAN : WorkerFetch(w, err)
    \/ \E w \in Workers : WorkerClassify(w)
    \/ \E w \in Workers : WorkerAck(w)
    \/ \E w \in Workers : WorkerDone(w)
    \/ \E k \in Keys : DelayFire(k)

\* the next step of each goroutine: the informer's handler goroutine, Run, a
\* worker
HandlerStep == handleAdd \/ handleUpdate \/ handleDelete

RunStep == PollSync \/ RunStartWorkers

WorkerStep(w) ==
    \/ WorkerBegin(w)
    \/ WorkerGet(w)
    \/ \E err \in BOOLEAN : WorkerFetch(w, err)
    \/ WorkerClassify(w)
    \/ WorkerAck(w)
    \/ WorkerDone(w)

\* a goroutine that can take its next step eventually takes it, and a timer
\* of the delaying queue that is set eventually fires
FairnessStartup ==
    /\ WF_vars(HandlerStep)
    /\ WF_vars(RunStep)
    /\ \A w \in Workers : WF_vars(WorkerStep(w))
    /\ \A k \in UpstreamKeys : WF_vars(DelayFire(k))

SpecStartup == InitConstructed /\ [][NextStartup]_vars /\ FairnessStartup

\* The same start with Run called with any number of workers from none to
\* all, and no assumption on the scheduling.
InitRun ==
    \E n \in 0..Cardinality(Workers) :
        /\ now = StartInstant
        /\ ticks = 0
        /\ numWorkers = n
        /\ nextRV = 1
        /\ store = [k \in Keys |-> NoObj]
        /\ notifs = <<>>
        /\ wq = EmptyQueue
        /\ stopped = FALSE
        /\ wpc = [w \in Workers |-> "idle"]
        /\ wkey = [w \in Workers |-> NoKey]
        /\ wobj = [w \in Workers |-> NoObj]
        /\ werr = [w \in Workers |-> FALSE]
        /\ emitted = [k \in Keys |-> [n |-> 0, last |-> NoEvent]]
        /\ proc = "running"
        /\ runpc = "waitSync"
        /\ synced = FALSE
        /\ hist = [k \in Keys |-> NoAdds]
        /\ lastOp = Op("init", NoKey, NoNote)

\* Secrets are created and modified under both keys, so that a second key
\* can be queued while a worker holds the first
NextRun ==
    \/ \E k \in Keys, ann \in {AnnTracked, AnnUntracked} : UpstreamUpsert(k, ann)
    \/ handleAdd
    \/ handleUpdate
    \/ PollSync
    \/ InformerSync
    \/ RunStartWorkers
    \/ \E w \in Workers : WorkerBegin(w)
    \/ \E w \in Workers : WorkerGet(w)
    \/ \E w \in Workers, err \in BOOLEAN : WorkerFetch(w, err)
    \/ \E w \in Workers : WorkerClassify(w)
    \/ \E w \in Workers : WorkerAck(w)
    \/ \E w \in Workers : WorkerDone(w)
    \/ \E k \in Keys : DelayFire(k)

SpecRun == InitRun /\ [][NextRun]_vars

\* ------------------------------------------------------------------------
\* Two tracked Secrets have been added and their keys enqueued; the cache
\* reads for one of them (AlwaysFailing) may fail on every pass.  Nothing
\* changes upstream and no stop signal is sent; the workers and the delaying
\* queue's timers keep running.
\* ------------------------------------------------------------------------
InitContain ==
    /\ now = StartInstant
    /\ ticks = 0
    /\ numWorkers = Cardinality(Workers)
    /\ nextRV = 3
    /\ store = [k \in Keys |->
                  [kind |-> "Secret", rv |-> IF k \in AlwaysFailing THEN 2 ELSE 1,
                   ann |-> AnnTracked]]
    /\ notifs = <<>>
    /\ wq = [EmptyQueue EXCEPT !.queue = <<"default/a", "default/b">>, !.dirty = Keys]
    /\ stopped = FALSE
    /\ wpc = [w \in Workers |-> "get"]
    /\ wkey = [w \in Workers |-> NoKey]
    /\ wobj = [w \in Workers |-> NoObj]
    /\ werr = [w \in Workers |-> FALSE]
    /\ emitted = [k \in Keys |-> [n |-> 0, last |-> NoEvent]]
    /\ proc = "running"
    /\ runpc = "serving"
    /\ synced = TRUE
    /\ hist = [k \in Keys |-> NoAdds]
    /\ lastOp = Op("handleAdd", "default/b",
                   [NoNote EXCEPT !.adds = 1, !.newTracked = TRUE, !.wqSame = FALSE,
                                  !.setsSame = FALSE])

NextContain ==
    \/ \E w \in Workers : WorkerGet(w)
    \/ \E w \in Workers, err \in BOOLEAN : WorkerFetch(w, err)
    \/ \E w \in Workers : WorkerClassify(w)
    \/ \E w \in Workers : WorkerAck(w)
    \/ \E w \in Workers : WorkerDone(w)
    \/ \E k \in Keys : DelayFire(k)
    \/ Tick

FairnessContain ==
    /\ \A w \in Workers : WF_vars(WorkerStep(w))
    /\ \A k \in Keys : WF_vars(DelayFire(k))

SpecContain == InitContain /\ [][NextContain]_vars /\ FairnessContain

\* the controller is serving: the informer has synced on an empty cluster and
\* Run has started the workers
Init ==
    /\ now = StartInstant
    /\ ticks = 0
    /\ numWorkers = Cardinality(Workers)
    /\ nextRV = 1
    /\ store = [k \in Keys |-> NoObj]
    /\ notifs = <<>>
    /\ wq = EmptyQueue
    /\ stopped = FALSE
    /\ wpc = [w \in Workers |-> "get"]
    /\ wkey = [w \in Workers |-> NoKey]
    /\ wobj = [w \in Workers |-> NoObj]
    /\ werr = [w \in Workers |-> FALSE]
    /\ emitted = [k \in Keys |-> [n |-> 0, last |-> NoEvent]]
    /\ proc = "running"
    /\ runpc = "serving"
    /\ synced = TRUE
    /\ hist = [k \in Keys |-> NoAdds]
    /\ lastOp = Op("init", NoKey, NoNote)

Next ==
    \/ \E k \in UpstreamKeys, ann \in Anns : UpstreamUpsert(k, ann)
    \/ \E k \in UpstreamKeys, tomb \in BOOLEAN : UpstreamDelete(k, tomb)
    \/ \E k \in Keys : Resync(k)
    \/ handleAdd
    \/ handleUpdate
    \/ handleDelete
    \/ \E w \in Workers : WorkerGet(w)
    \/ \E w \in Workers : WorkerExit(w)
    \/ \E w \in Workers, err \in BOOLEAN : WorkerFetch(w, err)
    \/ \E w \in Workers : WorkerClassify(w)
    \/ \E w \in Workers : WorkerAck(w)
    \/ \E w \in Workers : WorkerDone(w)
    \/ \E k \in Keys : DelayFire(k)
    \/ Tick
    \/ Stop
    \/ RunReturn

Spec == Init /\ [][Next]_vars

\* The same engine with the informer's watch, the handlers, the workers and
\* the delaying queue only: the clock stands still, no resync is due and
\* nobody stops the controller.
NextMirror ==
    \/ \E k \in UpstreamKeys, ann \in Anns : UpstreamUpsert(k, ann)
    \/ \E k \in UpstreamKeys, tomb \in BOOLEAN : UpstreamDelete(k, tomb)
    \/ handleAdd
    \/ handleUpdate
    \/ handleDelete
    \/ \E w \in Workers : WorkerGet(w)
    \/ \E w \in Workers, err \in BOOLEAN : WorkerFetch(w, err)
    \/ \E w \in Workers : WorkerClassify(w)
    \/ \E w \in Workers : WorkerAck(w)
    \/ \E w \in Workers : WorkerDone(w)
    \/ \E k \in Keys : DelayFire(k)

SpecMirror == Init /\ [][NextMirror]_vars

\* ------------------------------------------------------------------------
\* A tracked Secret that upstream never modifies: it has just been created,
\* and from then on only resyncs, the handlers, the workers, the delaying
\* queue and the clock act.  The handler goroutine, the worker goroutines, the
\* delaying queue's timers and the resync timer keep running; the clock is
\* not forced.
\* ------------------------------------------------------------------------
InitUnmodified ==
    \E k \in Keys :
        LET obj == [kind |-> "Secret", rv |-> 1, ann |-> AnnTracked]
        IN  /\ now = StartInstant
            /\ ticks = 0
            /\ numWorkers = Cardinality(Workers)
            /\ nextRV = 2
            /\ store = [x \in Keys |-> IF x = k THEN obj ELSE NoObj]
            /\ notifs = <<[type |-> "add", key |-> k, old |-> NoObj, new |-> obj,
                           tombstone |-> FALSE]>>
            /\ wq = EmptyQueue
            /\ stopped = FALSE
            /\ wpc = [w \in Workers |-> "get"]
            /\ wkey = [w \in Workers |-> NoKey]
            /\ wobj = [w \in Workers |-> NoObj]
            /\ werr = [w \in Workers |-> FALSE]
            /\ emitted = [x \in Keys |-> [n |-> 0, last |-> NoEvent]]
            /\ proc = "running"
            /\ runpc = "serving"
            /\ synced = TRUE
            /\ hist = [x \in Keys |-> NoAdds]
            /\ lastOp = Op("upsert", k, NoNote)

NextUnmodified ==
    \/ \E k \in Keys : Resync(k)
    \/ handleAdd
    \/ handleUpdate
    \/ \E w \in Workers : WorkerGet(w)
    \/ \E w \in Workers, err \in BOOLEAN : WorkerFetch(w, err)
    \/ \E w \in Workers : WorkerClassify(w)
    \/ \E w \in Workers : WorkerAck(w)
    \/ \E w \in Workers : WorkerDone(w)
    \/ \E k \in Keys : DelayFire(k)
    \/ Tick

FairnessUnmodified ==
    /\ WF_vars(handleAdd)
    /\ WF_vars(handleUpdate)
    /\ \A w \in Workers :
           /\ WF_vars(WorkerGet(w))
           /\ WF_vars(\E err \in BOOLEAN : WorkerFetch(w, err))
           /\ WF_vars(WorkerClassify(w))
           /\ WF_vars(WorkerAck(w))
           /\ WF_vars(WorkerDone(w))
    /\ \A k \in Keys : WF_vars(DelayFire(k)) /\ WF_vars(Resync(k))

SpecUnmodified == InitUnmodified /\ [][NextUnmodified]_vars /\ FairnessUnmodified

\* ------------------------------------------------------------------------
\* Classification on its own: a worker has fetched a Secret with any of the
\* annotation maps below at any instant around its expiration and is about
\* to classify it.
\* ------------------------------------------------------------------------
WarnValues == {NoAnn} \cup DurationValues

ClassifyAnns ==
    Anns \cup {[exp |-> DateA, warn |-> wv] : wv \in WarnValues}

ExpiresA == ParseDate(DateA).t

\* the hours of the day y-m-d, from 00:00 to 23:00 UTC
DayOf(y, m, d) == (24 * DaysFromCivil(y, m, d))..(24 * DaysFromCivil(y, m, d) + 23)

\* the days on which the specification's scenarios evaluate the Secret
ScenarioInstants == DayOf(2024, 12, 20) \cup DayOf(2024, 12, 27) \cup DayOf(2025, 1, 5)

\* instants eight days and seven days before the expiration, and between
ThresholdInstants == {ExpiresA - 8 * 24, ExpiresA - 7 * 24 - 1, ExpiresA - 7 * 24}

ClassifyInstants ==
    {StartInstant} \cup ((ExpiresA - HoursAround)..(ExpiresA + HoursAround))
        \cup ScenarioInstants \cup ThresholdInstants

InitClassify ==
    \E k \in Keys, w \in Workers, ann \in ClassifyAnns, t \in ClassifyInstants :
        /\ now = t
        /\ ticks = 0
        /\ numWorkers = Cardinality(Workers)
        /\ nextRV = 2
        /\ store = [x \in Keys |-> IF x = k THEN [kind |-> "Secret", rv |-> 1, ann |-> ann]
                                         ELSE NoObj]
        /\ notifs = <<>>
        /\ wq = [EmptyQueue EXCEPT !.processing = {k}]
        /\ stopped = FALSE
        /\ wpc = [x \in Workers |-> IF x = w THEN "classify" ELSE "get"]
        /\ wkey = [x \in Workers |-> IF x = w THEN k ELSE NoKey]
        /\ wobj = [x \in Workers |-> IF x = w THEN [kind |-> "Secret", rv |-> 1, ann |-> ann]
                                           ELSE NoObj]
        /\ werr = [x \in Workers |-> FALSE]
        /\ emitted = [x \in Keys |-> [n |-> 0, last |-> NoEvent]]
        /\ proc = "running"
        /\ runpc = "serving"
        /\ synced = TRUE
        /\ hist = [x \in Keys |-> NoAdds]
        /\ lastOp = Op("fetch", k, NoNote)

NextClassify ==
    \/ \E w \in Workers : WorkerClassify(w)
    \/ \E w \in Workers : WorkerAck(w)
    \/ \E w \in Workers : WorkerDone(w)

SpecClassify == InitClassify /\ [][NextClassify]_vars

\* ------------------------------------------------------------------------
\* Passes repeated over one Secret: a tracked Secret was created and its key
\* enqueued, the Secret was then updated, and the notification of the update
\* is still to be handled.  From here on neither upstream nor the clock
\* moves, so every pass reads the same Secret at the same instant.
\* ------------------------------------------------------------------------
RepeatInstants ==
    {StartInstant, ExpiresA - 7 * 24, ExpiresA - 1, ExpiresA, ExpiresA + 1, ExpiresA + 24}

InitRepeat ==
    \E k \in Keys, ann \in ClassifyAnns, t \in RepeatInstants :
        LET old == [kind |-> "Secret", rv |-> 1, ann |-> AnnTracked]
            new == [kind |-> "Secret", rv |-> 2, ann |-> ann]
        IN  /\ now = t
            /\ ticks = 0
            /\ numWorkers = Cardinality(Workers)
            /\ nextRV = 3
            /\ store = [x \in Keys |-> IF x = k THEN new ELSE NoObj]
            /\ notifs = <<[type |-> "update", key |-> k, old |-> old, new |-> new,
                           tombstone |-> FALSE]>>
            /\ wq = [EmptyQueue EXCEPT !.queue = <<k>>, !.dirty = {k}]
            /\ stopped = FALSE
            /\ wpc = [w \in Workers |-> "get"]
            /\ wkey = [w \in Workers |-> NoKey]
            /\ wobj = [w \in Workers |-> NoObj]
            /\ werr = [w \in Workers |-> FALSE]
            /\ emitted = [x \in Keys |-> [n |-> 0, last |-> NoEvent]]
            /\ proc = "running"
            /\ runpc = "serving"
            /\ synced = TRUE
            /\ hist = [x \in Keys |-> NoAdds]
            /\ lastOp = Op("upsert", k, NoNote)

NextRepeat ==
    \/ handleUpdate
    \/ \E w \in Workers : WorkerGet(w)
    \/ \E w \in Workers, err \in BOOLEAN : WorkerFetch(w, err)
    \/ \E w \in Workers : WorkerClassify(w)
    \/ \E w \in Workers : WorkerAck(w)
    \/ \E w \in Workers : WorkerDone(w)
    \/ \E k \in Keys : DelayFire(k)

SpecRepeat == InitRepeat /\ [][NextRepeat]_vars

\* ------------------------------------------------------------------------
\* An entry of another kind in the store: the key of an entry is queued, and
\* the entry is a ConfigMap (with or without the expiration annotation) or,
\* for comparison, a tracked Secret.  The workers and the delaying queue run;
\* upstream may replace the entry by a Secret, which the update handler sees.
\* ------------------------------------------------------------------------
KindEntries ==
    {[kind |-> "ConfigMap", rv |-> 1, ann |-> AnnTracked],
     [kind |-> "ConfigMap", rv |-> 1, ann |-> AnnUntracked],
     [kind |-> "Secret", rv |-> 1, ann |-> AnnTracked]}

InitKind ==
    \E k \in UpstreamKeys, obj \in KindEntries :
        /\ now = StartInstant
        /\ ticks = 0
        /\ numWorkers = Cardinality(Workers)
        /\ nextRV = 2
        /\ store = [x \in Keys |-> IF x = k THEN obj ELSE NoObj]
        /\ notifs = <<>>
        /\ wq = [EmptyQueue EXCEPT !.queue = <<k>>, !.dirty = {k}]
        /\ stopped = FALSE
        /\ wpc = [w \in Workers |-> "get"]
        /\ wkey = [w \in Workers |-> NoKey]
        /\ wobj = [w \in Workers |-> NoObj]
        /\ werr = [w \in Workers |-> FALSE]
        /\ emitted = [x \in Keys |-> [n |-> 0, last |-> NoEvent]]
        /\ proc = "running"
        /\ runpc = "serving"
        /\ synced = TRUE
        /\ hist = [x \in Keys |-> NoAdds]
        /\ lastOp = Op("init", NoKey, NoNote)

NextKind ==
    \/ \E k \in UpstreamKeys, ann \in Anns : UpstreamUpsert(k, ann)
    \/ handleUpdate
    \/ \E w \in Workers : WorkerGet(w)
    \/ \E w \in Workers, err \in BOOLEAN : WorkerFetch(w, err)
    \/ \E w \in Workers : WorkerClassify(w)
    \/ \E w \in Workers : WorkerAck(w)
    \/ \E w \in Workers : WorkerDone(w)
    \/ \E k \in Keys : DelayFire(k)

SpecKind == InitKind /\ [][NextKind]_vars

\* ------------------------------------------------------------------------
\* The handlers on their own: the handler goroutine is about to call one of
\* them with any value of any kind, with the key queued or not.
\* ------------------------------------------------------------------------
PayloadObjs ==
    {[kind |-> kd, rv |-> r, ann |-> a] :
        kd \in Kinds, r \in 1..MaxRV, a \in Anns \cup {AnnTracked3d}}

Payloads ==
    {[type |-> "add", key |-> k, old |-> NoObj, new |-> n, tombstone |-> FALSE] :
        k \in Keys, n \in PayloadObjs}
    \cup {[type |-> "update", key |-> k, old |-> o, new |-> n, tombstone |-> FALSE] :
        k \in Keys, o \in PayloadObjs, n \in PayloadObjs}
    \cup {[type |-> "delete", key |-> k, old |-> o, new |-> NoObj, tombstone |-> tb] :
        k \in Keys, o \in PayloadObjs, tb \in BOOLEAN}

PayloadQueues(k) == {EmptyQueue, [EmptyQueue EXCEPT !.queue = <<k>>, !.dirty = {k}]}

InitPayload ==
    \E n \in Payloads :
        \E q \in PayloadQueues(n.key) :
            /\ now = StartInstant
            /\ ticks = 0
            /\ numWorkers = Cardinality(Workers)
            /\ nextRV = MaxRV + 1
            /\ store = [x \in Keys |-> NoObj]
            /\ notifs = <<n>>
            /\ wq = q
            /\ stopped = FALSE
            /\ wpc = [w \in Workers |-> "get"]
            /\ wkey = [w \in Workers |-> NoKey]
            /\ wobj = [w \in Workers |-> NoObj]
            /\ werr = [w \in Workers |-> FALSE]
            /\ emitted = [x \in Keys |-> [n |-> 0, last |-> NoEvent]]
            /\ proc = "running"
            /\ runpc = "serving"
            /\ synced = TRUE
            /\ hist = [x \in Keys |-> NoAdds]
            /\ lastOp = Op("init", NoKey, NoNote)

NextPayload == handleAdd \/ handleUpdate \/ handleDelete

SpecPayload == InitPayload /\ [][NextPayload]_vars

TypeOK ==
    /\ ticks \in 0..MaxTicks
    /\ nextRV \in 1..(MaxRV + 1)
    /\ Len(notifs) <= MaxNotifs
    /\ \A w \in Workers : wpc[w] \in {"idle", "start", "get", "fetch", "classify", "ack",
                                     "done", "exit"}
    /\ proc \in {"running", "exited", "panicked"}
    /\ runpc \in {"waitSync", "serving", "returned", "failed"}
    /\ synced \in BOOLEAN
    /\ numWorkers \in 0..Cardinality(Workers)

\* ------------------------------------------------------------------------
\* Properties
\* ------------------------------------------------------------------------
InFlight(w) == wpc[w] \in {"fetch", "classify", "ack", "done"}

Count(seq, k) == Cardinality({i \in 1..Len(seq) : seq[i] = k})

\* the last step was a handler or the delaying queue calling Add(k)
AddCalled(k) ==
    /\ lastOp.key = k
    /\ \/ lastOp.op \in {"handleAdd", "handleUpdate", "handleDelete"} /\ lastOp.note.adds >= 1
       \/ lastOp.op = "delayFire"

StatusOf(obj, t) == emitExpirationEvent(parseSecretInfo(obj.ann, t)).reason

\* C1: for every key at most one worker is between Get and Done, so two
\* reconciliation passes for the same key never overlap.
C1_AtMostOneInFlight ==
    \A k \in Keys : Cardinality({w \in Workers : InFlight(w) /\ wkey[w] = k}) <= 1

\* a worker is reconciling a key that was added again meanwhile, a retry of the
\* key waits in the delaying queue, and the other worker is free to dequeue
C1_Witness ==
    \E w1, w2 \in Workers :
        /\ w1 # w2
        /\ wpc[w1] = "done"
        /\ wpc[w2] = "get"
        /\ wkey[w1] \in wq.dirty
        /\ wkey[w1] \in wq.waiting

\* C2 as stated: Add(key) called one or more times while the key is in flight
\* leaves the key queued exactly once after Done(key).
C2_DirtyRedelivery_Original ==
    \A k \in Keys :
        (lastOp.op = "done" /\ lastOp.key = k /\ hist[k].live + hist[k].down >= 1)
            => (Count(wq.queue, k) = 1 /\ k \notin wq.processing)

\* C2 amended: Add(key) called one or more times while the key is in flight and
\* the queue is not shut down leaves the key queued exactly once after Done(key).
C2_DirtyRedelivery ==
    \A k \in Keys :
        (lastOp.op = "done" /\ lastOp.key = k /\ hist[k].live >= 1)
            => (Count(wq.queue, k) = 1 /\ k \notin wq.processing)

\* Done has run after two Add calls made during the flight; the key is queued once
C2_Witness ==
    \E k \in Keys :
        /\ lastOp.op = "done"
        /\ lastOp.key = k
        /\ hist[k].live >= 2
        /\ Count(wq.queue, k) = 1

\* C3: Add on a key that is queued and not yet dequeued leaves the queue as it
\* is, a key is queued at most once, and the Get that dequeues it leaves no
\* second copy: N such Add calls give one dequeue.
C3_Dedup ==
    \A k \in Keys :
        /\ (AddCalled(k) /\ lastOp.note.pending) => lastOp.note.setsSame
        /\ Count(wq.queue, k) <= 1
        /\ (lastOp.op = "get" /\ lastOp.key = k) => ~InQueue(wq, k)

\* a key has been dequeued after Add calls that found it queued
C3_Witness ==
    \E k \in Keys :
        /\ lastOp.op = "get"
        /\ lastOp.key = k
        /\ hist[k].pend >= 1
        /\ ~InQueue(wq, k)

\* the Status last notified for the Secret stored under k is not its Status now
Stale(k) ==
    /\ store[k] # NoObj
    /\ Tracked(store[k], now)
    /\ emitted[k].n >= 1
    /\ emitted[k].last.reason # StatusOf(store[k], now)

Classifies(w, k) == wpc[w] = "classify" /\ wpc'[w] = "ack" /\ wkey[w] = k

\* C5 as stated: a pass that finds the Status of the previous notification for
\* the object emits no further notification.
C5_OncePerTransition_Original ==
    [][\A k \in Keys, w \in Workers :
         (/\ Classifies(w, k)
          /\ Tracked(wobj[w], now)
          /\ emitted[k].n >= 1
          /\ StatusOf(wobj[w], now) = emitted[k].last.reason)
             => emitted'[k] = emitted[k]]_vars

\* C5 amended: every pass over a tracked object emits exactly one notification
\* carrying the Status it found, whether that Status differs from the one of the
\* previous notification or equals it.
C5_OnePerPassChangedOrNot ==
    [][\A k \in Keys, w \in Workers :
         (Classifies(w, k) /\ Tracked(wobj[w], now))
             => /\ emitted'[k].n = emitted[k].n + 1
                /\ emitted'[k].last.reason = StatusOf(wobj[w], now)
                /\ (emitted[k].n >= 1 /\ StatusOf(wobj[w], now) = emitted[k].last.reason)
                       => emitted'[k].last.reason = emitted[k].last.reason]_vars

\* two passes at the same instant have both reported SecretValid
C5_Witness ==
    \E k \in Keys :
        /\ lastOp.op = "classify"
        /\ lastOp.key = k
        /\ ticks = 0
        /\ emitted[k].n >= 2
        /\ emitted[k].last.reason = "SecretValid"

\* C6: a step emits exactly one notification for a key when it is the
\* classification of a tracked Secret fetched for that key, and none otherwise
\* (key absent, fetch error, Secret untracked, any other step).
C6_EmitEveryPass ==
    [][\A k \in Keys :
         emitted'[k].n = emitted[k].n
             + (IF \E w \in Workers : Classifies(w, k) /\ Tracked(wobj[w], now)
                THEN 1 ELSE 0)]_vars

\* a later pass over a tracked Secret has emitted again
C6_Witness ==
    \E k \in Keys :
        /\ lastOp.op = "classify"
        /\ lastOp.key = k
        /\ lastOp.note.newTracked
        /\ emitted[k].n >= 2

\* C9: handleUpdate called with old and new of the same version marker calls
\* Add on nothing and leaves the queue unchanged.
C9_ResyncFiltered ==
    (lastOp.op = "handleUpdate" /\ lastOp.note.same)
        => (lastOp.note.adds = 0 /\ lastOp.note.wqSame)

\* handleUpdate has run on the resync of a tracked Secret
C9_Witness ==
    /\ lastOp.op = "handleUpdate"
    /\ lastOp.note.same
    /\ lastOp.note.newTracked

\* C10: handleDelete calls neither Add nor AddRateLimited and leaves the
\* queue (pending, in flight, dirty, failure counters, delayed retries) unchanged.
C10_DeleteNeverEnqueues ==
    lastOp.op = "handleDelete" => (lastOp.note.adds = 0 /\ lastOp.note.wqSame)

\* handleDelete has run on a tombstone wrapping a tracked Secret
C10_Witness ==
    /\ lastOp.op = "handleDelete"
    /\ lastOp.note.oldTracked
    /\ lastOp.note.tombstone
\* C7: the reason is SecretExpired iff day-count < 0, SecretExpiringSoon iff
\* 0 <= day-count <= warning-threshold-days, SecretValid otherwise, exactly one
\* of the three; the type is Warning for the first two and Normal for SecretValid.
C7_StatusPartition ==
    [][\A k \in Keys, w \in Workers :
         (Classifies(w, k) /\ Tracked(wobj[w], now))
             => LET info == parseSecretInfo(wobj[w].ann, now)
                    d    == info.DaysUntilExp
                    thr  == warnThresholdDays(info)
                    e    == emitted'[k].last
                IN  /\ e.reason \in {"SecretExpired", "SecretExpiringSoon", "SecretValid"}
                    /\ (e.reason = "SecretExpired") <=> (d < 0)
                    /\ (e.reason = "SecretExpiringSoon") <=> (0 <= d /\ d <= thr)
                    /\ (e.reason = "SecretValid") <=> (d >= 0 /\ d > thr)
                    /\ (e.type = "Warning")
                           <=> (e.reason \in {"SecretExpired", "SecretExpiringSoon"})
                    /\ (e.type = "Normal") <=> (e.reason = "SecretValid")]_vars

\* a Secret whose day-count equals its warning threshold was reported ExpiringSoon
C7_Witness ==
    \E k \in Keys :
        /\ lastOp.op = "classify"
        /\ lastOp.key = k
        /\ emitted[k].n = 1
        /\ emitted[k].last.reason = "SecretExpiringSoon"
        /\ emitted[k].last.type = "Warning"
        /\ emitted[k].last.days >= 1
        /\ emitted[k].last.days
               = warnThresholdDays(parseSecretInfo(store[k].ann, now))

\* C8 as stated: day-count = floor((E - now) / 24), so strictly after E the
\* day-count is negative and the Status is Expired.
C8_FloorDayCount_Original ==
    [][\A k \in Keys, w \in Workers :
         (Classifies(w, k) /\ Tracked(wobj[w], now))
             => LET E == ParseDate(wobj[w].ann.exp).t
                    d == emitted'[k].last.days
                IN  /\ 24 * d <= E - now
                    /\ E - now < 24 * (d + 1)
                    /\ (now > E) => (d < 0 /\ emitted'[k].last.reason = "SecretExpired")]_vars

\* C8 amended: day-count is (E - now) / 24 rounded toward zero; from 24 hours
\* after E on it is negative and the Status is Expired; during the first 24
\* hours after E it is 0 and the Status is not Expired.
C8_TruncatedDayCount ==
    [][\A k \in Keys, w \in Workers :
         (Classifies(w, k) /\ Tracked(wobj[w], now))
             => LET E == ParseDate(wobj[w].ann.exp).t
                    d == emitted'[k].last.days
                    r == emitted'[k].last.reason
                IN  /\ (E >= now) => (24 * d <= E - now /\ E - now < 24 * (d + 1))
                    /\ (E < now) => (24 * (d - 1) < E - now /\ E - now <= 24 * d)
                    /\ (now >= E + 24) => (d < 0 /\ r = "SecretExpired")
                    /\ (E < now /\ now < E + 24) => (d = 0 /\ r # "SecretExpired")]_vars

\* a Secret was classified within 24 hours after its expiration instant
C8_Witness ==
    \E k \in Keys :
        /\ lastOp.op = "classify"
        /\ lastOp.key = k
        /\ emitted[k].n = 1
        /\ ParseDate(store[k].ann.exp).ok
        /\ ParseDate(store[k].ann.exp).t < now
        /\ now < ParseDate(store[k].ann.exp).t + 24
        /\ emitted[k].last.days = 0
        /\ emitted[k].last.reason = "SecretExpiringSoon"

\* C11 as stated: no reconciliation pass starts for a key whose object has been
\* removed from the store.
C11_NeverInvokedForRemoved_Original ==
    lastOp.op = "get" => store[lastOp.key] # NoObj

\* C11 amended: handleDelete enqueues nothing, so a removal starts no pass; a
\* pass that was queued before the removal still starts, finds the key absent
\* from the store, goes on to Forget without classifying (where Events are
\* recorded) and without error, so the key is not retried.
C11_RemovedKeyPassIsNoop ==
    /\ lastOp.op = "handleDelete" => lastOp.note.adds = 0
    /\ (lastOp.op = "fetch" /\ store[lastOp.key] = NoObj)
           => \E w \in Workers :
                  /\ wkey[w] = lastOp.key
                  /\ wpc[w] = "ack"
                  /\ ~werr[w]
                  /\ ackQueue(wq, wkey[w], werr[w]) = QForget(wq, wkey[w])

\* a pass has fetched a key whose tracked Secret was removed while it was
\* queued, after a notification had been emitted for it
C11_Witness ==
    \E k \in Keys :
        /\ lastOp.op = "fetch"
        /\ lastOp.key = k
        /\ store[k] = NoObj
        /\ nextRV >= 3
        /\ \E w \in Workers : wkey[w] = k /\ wpc[w] = "ack"

\* the classification before this step recorded an Event for w's key that is
\* not written to the API server, with the broadcaster still running
EmissionFailed(w) ==
    /\ lastOp.op = "classify"
    /\ lastOp.key = wkey[w]
    /\ lastOp.note.emits = 1
    /\ ~lastOp.note.delivered
    /\ ~stopped

\* C12: a pass that failed in the snapshot fetch or in the emission call
\* re-enqueues its key through AddRateLimited.
C12_FailedPassRetried ==
    [][\A w \in Workers :
         (wpc[w] = "ack" /\ wpc'[w] = "done" /\ (werr[w] \/ EmissionFailed(w)))
             => (lastOp'.op = "addRateLimited" /\ wkey[w] \in wq'.waiting)]_vars

\* C13: a Secret whose expires-at is present and does not parse as YYYY-MM-DD
\* is untracked: handleAdd calls Add on nothing and leaves the queue as it
\* was; a pass that classifies it records no Event, returns no error and goes
\* on to Forget, which leaves the failure count at zero and schedules no
\* retry.
C13_MalformedDateUntracked ==
    /\ (lastOp.op = "handleAdd" /\ lastOp.note.badDate)
           => (~lastOp.note.newTracked /\ lastOp.note.adds = 0 /\ lastOp.note.wqSame)
    /\ (lastOp.op = "classify" /\ lastOp.note.badDate)
           => /\ ~lastOp.note.newTracked
              /\ lastOp.note.emits = 0
              /\ \E w \in Workers :
                     /\ wkey[w] = lastOp.key
                     /\ wpc[w] = "ack"
                     /\ ~werr[w]
                     /\ ackQueue(wq, wkey[w], werr[w]).failures[wkey[w]] = 0
                     /\ ackQueue(wq, wkey[w], werr[w]).waiting = wq.waiting

\* a pass has classified a Secret whose date had been valid when its key was
\* enqueued and was malformed when the pass read it
C13_Witness ==
    \E k \in Keys :
        /\ lastOp.op = "classify"
        /\ lastOp.key = k
        /\ lastOp.note.badDate
        /\ store[k].ann = AnnMalformed
        /\ emitted[k].n = 0

\* C14: a step whose parseSecretInfo calls meet malformed values (a date or a
\* lead time) writes exactly one diagnostic for each of them.
C14_DiagnosticPerDataError ==
    lastOp.note.dataErrs >= 1 => lastOp.note.diags = lastOp.note.dataErrs

\* C15: while Run waits for the cache to sync no worker has started, nothing
\* is in flight and a queued key stays queued; a worker that has started
\* implies HasSynced; and once HasSynced is true every queued key is
\* eventually dequeued by a worker.
C15_StartupOrdering ==
    /\ [](runpc = "waitSync"
             => (wq.processing = {} /\ \A w \in Workers : wpc[w] = "idle" /\ wkey[w] = NoKey))
    /\ []((\E w \in Workers : wpc[w] # "idle") => synced)
    /\ []((runpc = "waitSync" /\ AddCalled(lastOp.key)) => InQueue(wq, lastOp.key))
    /\ [][(runpc = "waitSync" /\ runpc' = "waitSync")
             => \A k \in Keys : InQueue(wq, k) => InQueue(wq', k)]_vars
    /\ \A k \in UpstreamKeys : []((InQueue(wq, k) /\ synced) => <>(k \in wq.processing))

\* Run has just started the workers with a key in the queue that a handler
\* put there during the initial listing
C15_Witness ==
    \E k \in Keys :
        /\ lastOp.op = "startWorkers"
        /\ InQueue(wq, k)
        /\ \A w \in Workers : wpc[w] = "start"

\* C16: with no stop signal sent, if the informer never completes its initial
\* listing, Run eventually returns an error.
C16_BoundedStartup ==
    ([]~synced) => <>(runpc = "failed")

\* C17: Get reports shutdown to a worker only when nothing is queued, and
\* once Run has started the workers the process does not end before every
\* queued key has been dequeued and every worker has left its loop.
C17_ShutdownDrain ==
    /\ lastOp.op = "exit" => wq.queue = <<>>
    /\ (proc = "exited" /\ runpc \in {"serving", "returned"})
           => (wq.queue = <<>> /\ \A w \in Workers : wpc[w] = "exit")

\* C18: the process does not end while a worker is between Get and Done.
C18_InFlightCompletes ==
    proc = "exited" => \A w \in Workers : ~InFlight(w)

\* C19: a call of Stop, the first or a later one, leaves the controller
\* stopped and the process running.
C19_StopIdempotent ==
    lastOp.op = "stop" => (stopped /\ proc = "running")

\* C20: whatever the passes for the failing key do, every other key that is
\* queued is eventually dequeued and its Secret classified, and the process
\* keeps running.
C20_FaultContainment ==
    /\ [](proc = "running")
    /\ \A k \in Keys \ AlwaysFailing :
           [](InQueue(wq, k) => <>(lastOp.op = "classify" /\ lastOp.key = k))

\* the failing key has failed as often as is counted, has never been
\* classified and waits for its next retry, and the other key has been
\* classified after a retry of its own
C20_Witness ==
    \E k \in AlwaysFailing, j \in Keys \ AlwaysFailing :
        /\ wq.failures[k] = MaxFailures
        /\ emitted[k].n = 0
        /\ k \in wq.waiting
        /\ lastOp.op = "classify"
        /\ lastOp.key = j
        /\ wq.failures[j] >= 1

\* C21: a pass that classifies a Secret returns success; over a tracked Secret
\* it records one Event, and when an earlier pass over the same unchanged
\* Secret at the same instant has recorded an Event, the Event it records is
\* equal to that one (same reason, type and day count); over an untracked
\* Secret every pass records nothing.
C21_ReconcileIdempotent ==
    [][\A k \in Keys, w \in Workers :
         Classifies(w, k)
             => /\ ~werr'[w]
                /\ Tracked(wobj[w], now) => emitted'[k].n = emitted[k].n + 1
                /\ ~Tracked(wobj[w], now) => emitted'[k] = emitted[k]
                /\ emitted[k].n >= 1 => emitted'[k].last = emitted[k].last]_vars

\* the second pass over the unchanged Secret has recorded its Event and is
\* about to call Forget
C21_Witness ==
    \E k \in Keys, w \in Workers :
        /\ lastOp.op = "classify"
        /\ lastOp.key = k
        /\ wkey[w] = k
        /\ wpc[w] = "ack"
        /\ ~werr[w]
        /\ emitted[k].n = 2
        /\ store[k].rv = 2

\* a pass has reported on the Secret stored under k, whose annotations are ann
Reported(k, ann) == emitted[k].n >= 1 /\ store[k].ann = ann

Midnight(y, m, d) == 24 * DaysFromCivil(y, m, d)

\* C22 as stated: expires-at 2024-12-31 without warn-before gives, at every
\* instant of 2024-12-20, day count 11 and SecretValid; of 2024-12-27, day
\* count 4 and SecretExpiringSoon; of 2025-01-05, day count -5 and
\* SecretExpired; with warn-before 3d, at every instant of 2024-12-27, day
\* count 4 and SecretValid.
C22_Scenarios_Original ==
    \A k \in Keys :
        LET e == emitted[k].last
        IN  /\ (Reported(k, AnnTracked) /\ now \in DayOf(2024, 12, 20))
                   => (e.days = 11 /\ e.reason = "SecretValid")
            /\ (Reported(k, AnnTracked) /\ now \in DayOf(2024, 12, 27))
                   => (e.days = 4 /\ e.reason = "SecretExpiringSoon")
            /\ (Reported(k, AnnTracked) /\ now \in DayOf(2025, 1, 5))
                   => (e.days = -5 /\ e.reason = "SecretExpired")
            /\ (Reported(k, AnnTracked3d) /\ now \in DayOf(2024, 12, 27))
                   => (e.days = 4 /\ e.reason = "SecretValid")

\* C22 amended: the four scenarios hold when the Secret is evaluated at 00:00
\* UTC of the named date, and the third at every instant of 2025-01-05.
\* Later on 2024-12-20 the day count is 10 (SecretValid), later on 2024-12-27
\* it is 3 (SecretExpiringSoon), and with warn-before 3d later on 2024-12-27
\* it is 3 and the Status is SecretExpiringSoon.
C22_ScenariosAtMidnight ==
    \A k \in Keys :
        LET e == emitted[k].last
        IN  /\ (Reported(k, AnnTracked) /\ now = Midnight(2024, 12, 20))
                   => (e.days = 11 /\ e.reason = "SecretValid")
            /\ (Reported(k, AnnTracked) /\ now = Midnight(2024, 12, 27))
                   => (e.days = 4 /\ e.reason = "SecretExpiringSoon")
            /\ (Reported(k, AnnTracked) /\ now \in DayOf(2025, 1, 5))
                   => (e.days = -5 /\ e.reason = "SecretExpired")
            /\ (Reported(k, AnnTracked3d) /\ now = Midnight(2024, 12, 27))
                   => (e.days = 4 /\ e.reason = "SecretValid")
            /\ (Reported(k, AnnTracked) /\ now \in DayOf(2024, 12, 20) \ {Midnight(2024, 12, 20)})
                   => (e.days = 10 /\ e.reason = "SecretValid")
            /\ (Reported(k, AnnTracked) /\ now \in DayOf(2024, 12, 27) \ {Midnight(2024, 12, 27)})
                   => (e.days = 3 /\ e.reason = "SecretExpiringSoon")
            /\ (Reported(k, AnnTracked3d) /\ now \in DayOf(2024, 12, 27) \ {Midnight(2024, 12, 27)})
                   => (e.days = 3 /\ e.reason = "SecretExpiringSoon")

\* the Secret with warn-before 3d was evaluated at 00:00 of 2024-12-27 and
\* reported SecretValid with day count 4
C22_Witness ==
    \E k \in Keys :
        /\ Reported(k, AnnTracked3d)
        /\ now = Midnight(2024, 12, 27)
        /\ emitted[k].last.days = 4
        /\ emitted[k].last.reason = "SecretValid"

\* C23: a handler called with a value that is not a Secret (handleDelete:
\* neither a Secret nor a tombstone that wraps one) calls Add on nothing,
\* calls parseSecretInfo on nothing, leaves the queue and its counters as
\* they were and leaves the process running.
C23_BadPayloadDropped ==
    (lastOp.op \in {"handleAdd", "handleUpdate", "handleDelete"} /\ lastOp.note.badKind)
        => /\ lastOp.note.adds = 0
           /\ lastOp.note.wqSame
           /\ lastOp.note.dataErrs = 0
           /\ hist = [k \in Keys |-> NoAdds]
           /\ proc = "running"

\* handleUpdate has returned from a call with an old value that is not a
\* Secret and a new value that is a tracked Secret of another version
C23_Witness ==
    /\ lastOp.op = "handleUpdate"
    /\ lastOp.note.badKind
    /\ lastOp.note.newTracked
    /\ ~lastOp.note.same
    /\ notifs = <<>>

\* upstream has made its last change and the key of its Secret is queued, or
\* the notification of a change that left the Secret tracked is to be handled
BurstOver(k) ==
    /\ synced
    /\ nextRV > MaxRV
    /\ InQueue(wq, k) \/ (notifs # <<>> /\ Tracked(store[k], now))

\* C24: the Secret a pass works on is the one the store holds for the key
\* when the pass fetches it; the Event the pass records is the one computed
\* from that Secret, whatever the notification that enqueued the key
\* carried; and once upstream has made its last change to a Secret whose key
\* is queued or about to be, a pass classifies the last version, after which
\* the store has no other version to give to a later pass.
C24_ReadsMirror ==
    /\ []((lastOp.op = "fetch" /\ store[lastOp.key] # NoObj)
             => \E w \in Workers :
                    /\ wkey[w] = lastOp.key
                    /\ wpc[w] = "classify"
                    /\ wobj[w] = store[lastOp.key])
    /\ [][\A k \in Keys, w \in Workers :
             (Classifies(w, k) /\ Tracked(wobj[w], now))
                 => /\ emitted'[k].last = emitExpirationEvent(parseSecretInfo(wobj[w].ann, now))
                    /\ lastOp'.note.rv = wobj[w].rv]_vars
    /\ [][\A k \in Keys : store[k] # NoObj => store'[k].rv >= store[k].rv]_vars
    /\ \A k \in UpstreamKeys :
           [](BurstOver(k)
                => <>(lastOp.op = "classify" /\ lastOp.key = k
                          /\ lastOp.note.rv = store[k].rv))

\* a pass whose key was enqueued for the tracked version 1 has classified
\* version 2, which is untracked, before the notification of that update was
\* handled, and has recorded nothing
C24_Witness ==
    \E k \in Keys :
        /\ lastOp.op = "classify"
        /\ lastOp.key = k
        /\ lastOp.note.rv = 2
        /\ ~lastOp.note.newTracked
        /\ lastOp.note.emits = 0
        /\ notifs # <<>>
        /\ Head(notifs).new.rv = 2
        /\ Tracked(Head(notifs).old, now)

\* C25: a key handed out by Get has, from then on, at most one Forget or
\* AddRateLimited call and at most one Done call made for it, and none after
\* Done; when Done is called exactly one of Forget and AddRateLimited has been
\* called before it, once; AddRateLimited is the call made when reconcile
\* returned an error (the cache read failed) and Forget the one made when it
\* returned nil (Secret untracked, or tracked and its Event recorded); and
\* while the process runs every key handed out gets its Done.
C25_AckStateMachine ==
    /\ [](\A k \in Keys :
             /\ hist[k].forgets + hist[k].retries <= 1
             /\ hist[k].dones <= 1
             /\ k \in wq.processing => hist[k].dones = 0
             /\ hist[k].dones = 1 => hist[k].forgets + hist[k].retries = 1)
    /\ [](\A w \in Workers :
             /\ wpc[w] \in {"fetch", "classify", "ack"}
                    => hist[wkey[w]].forgets + hist[wkey[w]].retries = 0
             /\ (wpc[w] = "ack" /\ lastOp.key = wkey[w])
                    => /\ lastOp.op = "fetchError" => werr[w]
                       /\ lastOp.op \in {"fetch", "classify"} => ~werr[w])
    /\ [][\A w \in Workers :
             (wpc[w] = "ack" /\ wpc'[w] = "done")
                 => /\ hist'[wkey[w]].retries = (IF werr[w] THEN 1 ELSE 0)
                    /\ hist'[wkey[w]].forgets = (IF werr[w] THEN 0 ELSE 1)]_vars
    /\ \A w \in Workers :
           [](InFlight(w) => <>(lastOp.op = "done" /\ wpc[w] = "get"))

\* Done has been called for a key whose pass ended in AddRateLimited, after
\* an earlier pass of the key had recorded an Event and ended in Forget
C25_Witness ==
    \E k \in Keys :
        /\ lastOp.op = "done"
        /\ lastOp.key = k
        /\ hist[k].retries = 1
        /\ hist[k].forgets = 0
        /\ hist[k].dones = 1
        /\ emitted[k].n = 1
        /\ k \in wq.waiting

\* C26: handleUpdate called with two Secrets of different version markers
\* calls Add with the key exactly once when the old or the new Secret is
\* tracked (annotation added, removed, changed, or kept), and does not call
\* Add, leaving the queue as it was, when neither is.
C26_UpdateRelevance ==
    (lastOp.op = "handleUpdate" /\ ~lastOp.note.badKind /\ ~lastOp.note.same)
        => /\ (lastOp.note.oldTracked \/ lastOp.note.newTracked) => lastOp.note.adds = 1
           /\ ~(lastOp.note.oldTracked \/ lastOp.note.newTracked)
                  => (lastOp.note.adds = 0 /\ lastOp.note.wqSame)

\* handleUpdate has enqueued the key of a Secret that lost its annotation
C26_Witness ==
    /\ lastOp.op = "handleUpdate"
    /\ ~lastOp.note.badKind
    /\ ~lastOp.note.same
    /\ lastOp.note.oldTracked
    /\ ~lastOp.note.newTracked
    /\ lastOp.note.adds = 1
    /\ ~lastOp.note.pending
    /\ InQueue(wq, lastOp.key)

\* C27: handleAdd called with a Secret calls Add with the key exactly once
\* when the Secret carries the expires-at annotation with a value that
\* parses as YYYY-MM-DD, after which the key is queued; for a Secret without
\* the annotation or with a value that does not parse it calls Add on nothing
\* and leaves the queue as it was.
C27_AddRelevance ==
    (lastOp.op = "handleAdd" /\ ~lastOp.note.badKind)
        => /\ (lastOp.note.hasExp /\ ~lastOp.note.badDate)
                  => (lastOp.note.adds = 1 /\ InQueue(wq, lastOp.key))
           /\ (~lastOp.note.hasExp \/ lastOp.note.badDate)
                  => (lastOp.note.adds = 0 /\ lastOp.note.wqSame)

\* handleAdd has put the key of a Secret with a valid date into the empty queue
C27_Witness ==
    /\ lastOp.op = "handleAdd"
    /\ lastOp.note.hasExp
    /\ ~lastOp.note.badDate
    /\ lastOp.note.adds = 1
    /\ ~lastOp.note.pending
    /\ wq.queue = <<lastOp.key>>

\* handleUpdate has just handled the update that took the annotation from the
\* tracked Secret of key k
RemovalHandled(k) ==
    /\ lastOp.op = "handleUpdate"
    /\ lastOp.key = k
    /\ ~lastOp.note.same
    /\ lastOp.note.oldTracked
    /\ ~lastOp.note.hasExp

\* a pass has just classified the Secret the store holds for k and found it untracked
FoundUntracked(k) ==
    /\ lastOp.op = "classify"
    /\ lastOp.key = k
    /\ ~lastOp.note.newTracked
    /\ store[k].rv = lastOp.note.rv

\* a pass has just recorded an Event for k
Emitting(k) == lastOp.op = "classify" /\ lastOp.key = k /\ lastOp.note.emits >= 1

\* C28: handleUpdate called for an update with a changed version marker that
\* removes the expires-at annotation of a tracked Secret calls Add with the
\* key once, which leaves the key marked for processing once; with the
\* workers running, a pass then classifies the Secret as untracked, records
\* nothing and returns nil, if upstream leaves the Secret untracked; and once a pass has found the stored version untracked no Event is
\* recorded for the key as long as the store holds that version.
C28_AnnotationRemoved ==
    /\ [](\A k \in Keys :
             RemovalHandled(k)
                 => /\ lastOp.note.adds = 1
                    /\ k \in wq.dirty
                    /\ Count(wq.queue, k) <= 1)
    /\ [](\A k \in Keys :
             FoundUntracked(k)
                 => /\ lastOp.note.emits = 0
                    /\ \E w \in Workers : wkey[w] = k /\ wpc[w] = "ack" /\ ~werr[w])
    /\ \A k \in UpstreamKeys :
           []((RemovalHandled(k) /\ synced /\ nextRV > MaxRV /\ ~Tracked(store[k], now))
                  => <>FoundUntracked(k))
    /\ \A k \in UpstreamKeys, r \in 1..MaxRV :
           []((FoundUntracked(k) /\ store[k].rv = r)
                  => [](store[k].rv = r => ~Emitting(k)))

\* the pass that followed the removal of the annotation has found version 2
\* untracked, after a pass over version 1 had recorded an Event
C28_Witness ==
    \E k \in Keys :
        /\ FoundUntracked(k)
        /\ store[k].rv = 2
        /\ store[k].ann = AnnUntracked
        /\ emitted[k].n = 1
        /\ notifs = <<>>

\* C30: a pass over a Secret whose date parses and whose warn-before is
\* absent or does not parse finds the Secret tracked, records one Event and
\* returns nil, and the threshold it applies is exactly 7 days: the Event is
\* SecretExpiringSoon for a day count from 0 to 7 and SecretValid from 8 on.
C30_LeadTimeDefault ==
    \A k \in Keys :
        (/\ lastOp.op = "classify"
         /\ lastOp.key = k
         /\ store[k].ann.exp # NoAnn
         /\ ParseDate(store[k].ann.exp).ok
         /\ store[k].ann.warn = NoAnn \/ MalformedWarn(store[k].ann))
            => LET e == emitted[k].last
               IN  /\ lastOp.note.newTracked
                   /\ lastOp.note.emits = 1
                   /\ \E w \in Workers : wkey[w] = k /\ wpc[w] = "ack" /\ ~werr[w]
                   /\ (e.reason = "SecretExpiringSoon") <=> (0 <= e.days /\ e.days <= 7)
                   /\ (e.reason = "SecretValid") <=> (e.days >= 8)

\* a Secret whose warn-before does not parse was classified seven days
\* before its expiration and reported SecretExpiringSoon
C30_Witness ==
    \E k \in Keys :
        /\ lastOp.op = "classify"
        /\ lastOp.key = k
        /\ MalformedWarn(store[k].ann)
        /\ emitted[k].last.days = 7
        /\ emitted[k].last.reason = "SecretExpiringSoon"

\* the warn-before value s is "<N>d" with an integer N
DaysForm(s) == Len(s) > 1 /\ s[Len(s)] = "d" /\ Atoi(SubSeq(s, 1, Len(s) - 1)).ok

\* C31: a pass over a tracked Secret whose warn-before is "<N>d" works with a
\* lead time of N*24 hours and a threshold of N days; with any other value
\* of the standard duration grammar it works with that duration and a
\* threshold of the duration's hours divided by 24, rounded toward zero. The
\* Event is SecretExpiringSoon exactly for a day count from 0 to the
\* threshold.
C31_LeadTimeParsing ==
    \A k \in Keys :
        (/\ lastOp.op = "classify"
         /\ lastOp.key = k
         /\ store[k].ann.exp # NoAnn
         /\ ParseDate(store[k].ann.exp).ok
         /\ store[k].ann.warn # NoAnn)
            => LET s    == store[k].ann.warn
                   info == parseSecretInfo(store[k].ann, now)
                   e    == emitted[k].last
                   n    == Atoi(SubSeq(s, 1, Len(s) - 1)).v
                   std  == StdParseDuration(s)
               IN  /\ DaysForm(s) =>
                          /\ info.WarnBefore % 3600 = 0
                          /\ info.WarnBefore \div 3600 = n * 24
                          /\ warnThresholdDays(info) = n
                          /\ (e.reason = "SecretExpiringSoon")
                                 <=> (0 <= e.days /\ e.days <= n)
                   /\ (~(Len(s) > 1 /\ s[Len(s)] = "d") /\ std.ok) =>
                          /\ info.WarnBefore = std.v
                          /\ (0 <= std.v /\ std.v < 24 * 3600)
                                 => warnThresholdDays(info) = 0
                          /\ (e.reason = "SecretExpiringSoon")
                                 <=> (0 <= e.days
                                      /\ e.days <= TruncDiv(TruncDiv(std.v, 3600), 24))

\* the day count from the instant t to midnight of the date s in the zone
\* at UTC offset h
DaysToMidnight(s, h, t) == TruncDiv((ParsedDate[s].t - h) - t, 24)

\* C32 as stated: a pass over a tracked Secret in a process at UTC offset
\* LocalOffset reports the day count to midnight of the date in that zone.
C32_LocalMidnight_Original ==
    \A k \in Keys :
        (/\ lastOp.op = "classify"
         /\ lastOp.key = k
         /\ lastOp.note.emits = 1)
            => emitted[k].last.days = DaysToMidnight(store[k].ann.exp, LocalOffset, now)

\* C32: a pass over a tracked Secret in a process at UTC offset LocalOffset
\* reports the day count to midnight UTC of the date, and the expiration
\* instant it works with is midnight UTC, whatever the process's zone is.
C32_UtcMidnight ==
    \A k \in Keys :
        (/\ lastOp.op = "classify"
         /\ lastOp.key = k
         /\ lastOp.note.emits = 1)
            => /\ LocalOffset # 0
               /\ emitted[k].last.days = DaysToMidnight(store[k].ann.exp, 0, now)
               /\ parseSecretInfo(store[k].ann, now).ExpiresAt
                      = ParsedDate[store[k].ann.exp].t

\* a pass reported a day count that differs from the count to local midnight
C32_Witness ==
    \E k \in Keys :
        /\ lastOp.op = "classify"
        /\ lastOp.key = k
        /\ lastOp.note.emits = 1
        /\ emitted[k].last.days = DaysToMidnight(store[k].ann.exp, 0, now)
        /\ emitted[k].last.days # DaysToMidnight(store[k].ann.exp, LocalOffset, now)

\* the steps of the workers, of the delaying queue and of the handlers
EngineOps ==
    {"get", "fetch", "fetchError", "classify", "addRateLimited", "forget", "done",
     "delayFire", "handleAdd", "handleUpdate", "handleDelete"}

\* the steps of the informer that apply a watch event or a list to the store
IngestionOps == {"upsert", "delete"}

\* C33: no step of a worker and no step of a handler changes the store; a
\* step that changes it is a step of the informer applying what it received
\* from the API server.
C33_MirrorReadOnly ==
    [][/\ lastOp'.op \in EngineOps => store' = store
       /\ store' # store => lastOp'.op \in IngestionOps]_vars

\* the store has been written at least twice and holds a tracked Secret,
\* which a pass has just classified
C33_Witness ==
    \E k \in Keys :
        /\ lastOp.op = "classify"
        /\ lastOp.key = k
        /\ lastOp.note.emits = 1
        /\ store[k].rv >= 2
        /\ store[k].ann = AnnTracked

\* a worker is between Get and Done on the key k
Holds(w, k) == InFlight(w) /\ wkey[w] = k

\* C34: processNextWorkItem has called AddRateLimited(k) when it calls
\* Done(k). Whether the delay expires before or after Done, and whether or
\* not a handler adds k in between, the key is not handed to a second worker
\* while the pass that failed holds it, and after Done it is either queued
\* once or still waiting for its delay: it is not lost.
C34_RetryInFlight ==
    \A k \in Keys :
        /\ Cardinality({w \in Workers : Holds(w, k)}) <= 1
        /\ \A w \in Workers :
              Holds(w, k) => Count(wq.queue, k) = 0
        /\ \A w \in Workers :
              (Holds(w, k) /\ wpc[w] = "done" /\ hist[k].retries >= 1)
                 => /\ k \in wq.processing
                    /\ k \in wq.waiting \/ k \in wq.dirty
        /\ (hist[k].retries >= 1 /\ \A w \in Workers : ~Holds(w, k))
              => \/ k \in wq.waiting /\ Count(wq.queue, k) <= 1
                 \/ Count(wq.queue, k) = 1

\* Done has run on a pass that failed: the delay expired before Done and a
\* handler added the key during the pass as well, and the key is queued once
C34_Witness ==
    \E k \in Keys :
        /\ lastOp.op = "done"
        /\ lastOp.key = k
        /\ hist[k].retries = 1
        /\ hist[k].live >= 2
        /\ k \notin wq.waiting
        /\ Count(wq.queue, k) = 1

\* Done has run on a pass that failed while the delay is still running: the
\* key waits in the delaying queue and is not queued
C34_WitnessWaiting ==
    \E k \in Keys :
        /\ lastOp.op = "done"
        /\ lastOp.key = k
        /\ hist[k].retries = 1
        /\ k \in wq.waiting
        /\ Count(wq.queue, k) = 0

\* C35: Stop shuts the broadcaster down and closes stopCh; a pass that is in
\* flight or queued at that moment goes on and records its Event after the
\* shutdown, and that Event still reaches the sink.
C35_DeliveredAfterStop ==
    \A k \in Keys :
        (/\ stopped
         /\ lastOp.op = "classify"
         /\ lastOp.key = k
         /\ lastOp.note.emits = 1)
            => lastOp.note.delivered

\* C36: a pass that finds under its key an entry that is not a Secret returns
\* an error and records no Event, and processNextWorkItem answers with
\* AddRateLimited; as long as the entry is not replaced no Event is recorded
\* for the key, Forget is not called for it and its failure count, from
\* which the delay is computed, does not go down.
C36_WrongKindRetried ==
    /\ [](\A k \in Keys :
            /\ (lastOp.op = "fetch" /\ lastOp.key = k /\ lastOp.note.badKind)
                   => \E w \in Workers :
                         wkey[w] = k /\ wpc[w] = "ack" /\ werr[w] /\ wobj[w] = NoObj
            /\ WrongKind(k) => emitted[k].n = 0 /\ hist[k].forgets = 0
            /\ (WrongKind(k) /\ lastOp.op = "done" /\ lastOp.key = k)
                   => /\ hist[k].retries = 1
                      /\ wq.failures[k] >= 1
                      /\ k \in wq.waiting \/ InQueue(wq, k))
    /\ [][\A k \in Keys :
            (WrongKind(k) /\ store'[k] = store[k])
               => /\ ~(lastOp'.op \in {"classify", "forget"} /\ lastOp'.key = k)
                  /\ (lastOp'.op = "fetch" /\ lastOp'.key = k) => lastOp'.note.badKind
                  /\ wq'.failures[k] >= wq.failures[k]
                  /\ emitted'[k] = emitted[k]]_vars

\* passes over a ConfigMap that carries the annotations of a tracked Secret
\* have failed as often as is counted: the key waits for its next retry and
\* no Event has been recorded
C36_Witness ==
    \E k \in Keys :
        /\ WrongKind(k)
        /\ store[k].ann = AnnTracked
        /\ lastOp.op = "done"
        /\ lastOp.key = k
        /\ wq.failures[k] = MaxFailures
        /\ k \in wq.waiting
        /\ emitted[k].n = 0

\* the keys Add has been called with, by a handler or by the delaying queue
EverAdded == {k \in Keys : hist[k].ever = 1}

\* C37: a key is not queued while a worker holds it, a key is queued at most
\* once, and the queue holds no more entries than there are keys that Add
\* has ever been called with.
C37_QueueSets ==
    /\ \A k \in Keys :
          /\ ~(InQueue(wq, k) /\ k \in wq.processing)
          /\ ~(InQueue(wq, k) /\ \E w \in Workers : Holds(w, k))
          /\ Count(wq.queue, k) <= 1
          /\ InQueue(wq, k) => k \in EverAdded
    /\ Len(wq.queue) <= Cardinality(EverAdded)

\* Done has queued a key again that was added twice while a worker held it:
\* one entry, for the one key ever added
C37_Witness ==
    \E k \in Keys :
        /\ lastOp.op = "done"
        /\ lastOp.key = k
        /\ hist[k].live >= 2
        /\ wq.queue = <<k>>
        /\ k \notin wq.processing
        /\ EverAdded = {k}

\* C38: Run(workers) starts that many worker goroutines, so at most that many
\* passes are in flight and at most that many keys are being processed; with
\* no worker, no key is dequeued, whatever the handlers enqueue.
C38_WorkerBound ==
    /\ Cardinality({w \in Workers : InFlight(w)}) <= numWorkers
    /\ Cardinality(wq.processing) <= numWorkers
    /\ numWorkers = 0 =>
          /\ \A w \in Workers : wpc[w] = "idle" /\ wkey[w] = NoKey
          /\ lastOp.op # "get"
          /\ \A k \in Keys : emitted[k].n = 0 /\ hist[k].dones = 0
          /\ \A k \in EverAdded : InQueue(wq, k)

\* Run has started no worker and waits on stopCh: a key is queued, the update
\* handler has just added it again, and nothing has been dequeued
C38_Witness ==
    /\ numWorkers = 0
    /\ runpc = "serving"
    /\ wq.queue # <<>>
    /\ wq.processing = {}
    /\ lastOp.op = "handleUpdate"
    /\ lastOp.note.adds >= 1
    /\ lastOp.note.pending

\* Run has started one worker: it holds one key while the other key is
\* queued and the second worker stays idle
C38_WitnessOne ==
    \E w \in Workers :
        /\ numWorkers = 1
        /\ InFlight(w)
        /\ wq.queue # <<>>
        /\ \A x \in Workers \ {w} : wpc[x] = "idle"
====
